---- MODULE Spec2Model ----
(***************************************************************************)
(* Model of the diagnostic and execution engine of the Java learning       *)
(* compiler: the run pipeline of the editor page (handleRunCode), the      *)
(* revisions of runJavaCompilerSimulation with their tiers, and the patch  *)
(* applier (handleApplyPatch).                                             *)
(*                                                                         *)
(* Text is a sequence of atoms; the atom NL is the newline character and   *)
(* every other atom stands for a run of characters without a newline.      *)
(* A JavaScript value that may be undefined/null is a sequence of length   *)
(* 0 (None) or 1 (Some(x)).                                                *)
(***************************************************************************)
EXTENDS Integers, Sequences, FiniteSets, TLC

VARIABLES
    orchRev,            \* which revision of runJavaCompilerSimulation is deployed
    scanRev,            \* which revision of detectLogicalErrors is deployed
    code,               \* useState(code): the editor document (text)
    output,             \* useState(output)
    outputType,         \* useState(outputType)
    exitCode,           \* useState(exitCode)
    showAIExplanation,  \* useState(showAIExplanation)
    aiExplanation,      \* useState(aiExplanation): None or Some(explanation)
    isRunning,          \* useState(isRunning)
    detectedLanguage,   \* useState(detectedLanguage)
    errorLines,         \* useState(errorLines)
    fixedLines,         \* useState(fixedLines)
    history,            \* localStorage 'compile_history'
    mistakes,           \* localStorage 'mistake_counts'
    pc,                 \* position of the run request in flight
    runCode,            \* the document captured by the request in flight
    tiers,              \* tiers attempted by the request in flight, in order
    tierIn,             \* what the environment answered to the tiers of the request
    result,             \* what runJavaCompilerSimulation settled with
    runs,               \* number of run requests started
    lastRun,            \* what the post-processing of the last request did
    lastApply,          \* what the last handleApplyPatch call did
    scanned,            \* what the last direct call of detectLogicalErrors returned
    lastCall,           \* what the last direct call of a mistake tracker function did
    tabs,               \* position of the trackMistakes call of each browser tab
    lastConvert         \* what the last handleAutoConvert call did

vars == <<orchRev, scanRev, lastConvert, tabs, scanned, lastCall, code, output, outputType, exitCode, showAIExplanation,
          aiExplanation, isRunning, detectedLanguage, errorLines, fixedLines,
          history, mistakes, pc, runCode, tiers, tierIn, result, runs, lastRun,
          lastApply>>

----------------------------------------------------------------------------
(* JavaScript values *)

None == <<>>
Some(x) == <<x>>
IsSome(o) == Len(o) = 1
Val(o) == o[1]

NL == "\n"

Min(a, b) == IF a < b THEN a ELSE b
Max(a, b) == IF a > b THEN a ELSE b

RECURSIVE SplitLines(_)
\* String.prototype.split('\n'): the lines of a text; "" has the one line "".
SplitLines(s) ==
    IF s = <<>> THEN << <<>> >>
    ELSE LET rest == SplitLines(Tail(s)) IN
         IF Head(s) = NL THEN << <<>> >> \o rest
         ELSE << <<Head(s)>> \o Head(rest) >> \o Tail(rest)

RECURSIVE JoinLinesTrailing(_)
JoinLinesTrailing(ls) ==
    IF ls = <<>> THEN <<>> ELSE ls[1] \o <<NL>> \o JoinLinesTrailing(Tail(ls))

RECURSIVE JoinLines(_)
\* Array.prototype.join('\n')
JoinLines(ls) ==
    IF ls = <<>> THEN <<>>
    ELSE IF Len(ls) = 1 THEN ls[1]
    ELSE ls[1] \o <<NL>> \o JoinLines(Tail(ls))

\* Array.prototype.slice(start, end): relative indices, negative ones count
\* from the end, both are clamped into [0, length].
SliceIndex(n, k) == IF k < 0 THEN Max(n + k, 0) ELSE Min(k, n)

JsSlice(a, start, end) ==
    LET from == SliceIndex(Len(a), start)
        to   == SliceIndex(Len(a), end)
    IN IF to <= from THEN <<>> ELSE SubSeq(a, from + 1, to)

JsSliceFrom(a, start) == JsSlice(a, start, Len(a))

----------------------------------------------------------------------------
(* The patch applier: handleApplyPatch *)

\* JavaScript truthiness of an optional text: undefined, null and "" are falsy.
TruthyText(o) == IsSome(o) /\ Val(o) # <<>>

RECURSIVE InsertDesc(_, _)
\* Puts p before the first element whose line_start is not larger: elements of
\* equal line_start keep their array order (Array.prototype.sort is stable).
InsertDesc(p, s) ==
    IF s = <<>> THEN <<p>>
    ELSE IF Head(s).line_start <= p.line_start THEN <<p>> \o s
    ELSE <<Head(s)>> \o InsertDesc(p, Tail(s))

RECURSIVE SortedPatchesUnsorted(_)
SortedPatchesUnsorted(ps) == IF ps = <<>> THEN <<>> ELSE <<Head(ps)>> \o SortedPatchesUnsorted(Tail(ps))

RECURSIVE SortedPatches(_)
\* [...patches].sort((a, b) => b.line_start - a.line_start)
SortedPatches(ps) ==
    IF ps = <<>> THEN <<>> ELSE InsertDesc(Head(ps), SortedPatches(Tail(ps)))

SplicePatchKeepsEnd(lines, patch) ==
    JsSlice(lines, 0, patch.line_start - 1)
        \o SplitLines(Val(patch.replacement))
        \o JsSliceFrom(lines, patch.line_end - 1)

\* [...before, ...replacementLines, ...after]
SplicePatch(lines, patch) ==
    JsSlice(lines, 0, patch.line_start - 1)
        \o SplitLines(Val(patch.replacement))
        \o JsSliceFrom(lines, patch.line_end)

\* for (let k = 0; k < len; k++) fixedIndices.push(patch.line_start + k)
PatchMarkers(patch) ==
    [k \in 1..Len(SplitLines(Val(patch.replacement))) |-> patch.line_start + k - 1]

RECURSIVE ApplySortedPatches(_, _, _)
\* The loop over sortedPatches; patch.replacement.split throws a TypeError when
\* the replacement is missing, which ends the handler before any setState.
ApplySortedPatches(ps, lines, fixed) ==
    IF ps = <<>> THEN [lines |-> lines, fixed |-> fixed, threw |-> FALSE]
    ELSE IF ~IsSome(Head(ps).replacement)
         THEN [lines |-> lines, fixed |-> fixed, threw |-> TRUE]
    ELSE ApplySortedPatches(Tail(ps), SplicePatch(lines, Head(ps)),
                            fixed \o PatchMarkers(Head(ps)))

\* The branch handleApplyPatch takes for an explanation.
PatchBranchArrayFirst(expl) ==
    IF ~IsSome(expl) THEN "noexpl"
    ELSE IF IsSome(Val(expl).minimal_fix_patches) THEN "array"
    ELSE IF TruthyText(Val(expl).corrected_code) THEN "full"
    ELSE IF IsSome(Val(expl).minimal_fix_patch) THEN "single"
    ELSE "noop"

PatchBranch(expl) ==
    IF ~IsSome(expl) THEN "noexpl"
    ELSE IF TruthyText(Val(expl).corrected_code) THEN "full"
    ELSE IF IsSome(Val(expl).minimal_fix_patches) THEN "array"
    ELSE IF IsSome(Val(expl).minimal_fix_patch) THEN "single"
    ELSE "noop"

\* What one call of handleApplyPatch computes from the explanation and the
\* document: the branch, whether it threw, the new document and the markers.
ApplyOutcome(expl, doc) ==
    LET branch == PatchBranch(expl)
        same   == [branch |-> branch, threw |-> FALSE, set |-> FALSE,
                   code |-> doc, fixed |-> <<>>]
    IN CASE branch = "full" ->
              LET cc == Val(Val(expl).corrected_code) IN
              [same EXCEPT !.set = TRUE, !.code = cc,
                           !.fixed = [i \in 1..Len(SplitLines(cc)) |-> i]]
         [] branch = "array" ->
              LET r == ApplySortedPatches(SortedPatches(Val(Val(expl).minimal_fix_patches)),
                                          SplitLines(doc), <<>>) IN
              IF r.threw THEN [same EXCEPT !.threw = TRUE]
              ELSE [same EXCEPT !.set = TRUE, !.code = JoinLines(r.lines),
                                !.fixed = r.fixed]
         [] branch = "single" ->
              LET patch == Val(Val(expl).minimal_fix_patch) IN
              IF ~IsSome(patch.replacement) THEN [same EXCEPT !.threw = TRUE]
              ELSE [same EXCEPT !.set = TRUE,
                                !.code = JoinLines(SplicePatch(SplitLines(doc), patch)),
                                !.fixed = PatchMarkers(patch)]
         [] OTHER -> same

NoApply == [called |-> FALSE, branch |-> "none", threw |-> FALSE, set |-> FALSE,
            doc |-> <<>>, expl |-> None, code |-> <<>>, fixed |-> <<>>]

----------------------------------------------------------------------------
(* Source texts and what the regular expressions of the engine find in them *)

ClassLine   == "class Main {"
MainLine    == "public static void main(String[] args) {"
PrintLine   == "System.out.println(\"hi\");"
PrintNoSemi == "System.out.println(\"hi\")"
DivZeroLine == "int x = 1 / 0;"
CloseLine   == "}"
PrintfLine  == "printf(\"hi\");"

RECURSIVE Lines(_)
\* The text made of the given lines.
Lines(ls) == IF ls = <<>> THEN <<>>
             ELSE IF Len(ls) = 1 THEN <<ls[1]>>
             ELSE <<ls[1], NL>> \o Lines(Tail(ls))

SrcOk        == Lines(<<ClassLine, MainLine, PrintLine, CloseLine, CloseLine>>)
SrcDivZero   == Lines(<<ClassLine, MainLine, DivZeroLine, CloseLine, CloseLine>>)
SrcNoMain    == Lines(<<ClassLine, CloseLine>>)
SrcNoSemi    == Lines(<<ClassLine, MainLine, PrintNoSemi, CloseLine, CloseLine>>)
SrcOpenBrace == Lines(<<ClassLine, MainLine, PrintLine, CloseLine>>)
SrcC         == Lines(<<PrintfLine>>)
SrcEmpty     == <<>>

SourceTexts == {SrcOk, SrcDivZero, SrcNoMain, SrcNoSemi, SrcOpenBrace, SrcC, SrcEmpty}

\* The texts the user types over the document in the model
EditTexts == {SrcDivZero, SrcEmpty}

HasAtom(text, atoms) == \E i \in 1..Len(text) : text[i] \in atoms
CountAtoms(text, atoms) == Cardinality({i \in 1..Len(text) : text[i] \in atoms})

\* /class\s+\w+/.test(code)
HasMainClass(text) == HasAtom(text, {ClassLine})
\* /public\s+static\s+void\s+main\s*\(\s*String\s*\[\s*\]\s*\w+\s*\)/.test(code)
HasMainMethod(text) == HasAtom(text, {MainLine})
\* /System\.out\.println\([^)]+\)\s*\n/.test(code) && !/System\.out\.println\([^)]+\);/.test(code)
HasMissingSemicolon(text) ==
    /\ \E i \in 1..Len(text) - 1 : text[i] = PrintNoSemi /\ text[i + 1] = NL
    /\ ~HasAtom(text, {PrintLine})
\* (code.match(/{/g) || []).length and (code.match(/}/g) || []).length
OpenBraces(text)  == CountAtoms(text, {ClassLine, MainLine})
CloseBraces(text) == CountAtoms(text, {CloseLine})

----------------------------------------------------------------------------
(* The static scanner: detectLogicalErrors, on the statements of SourceTexts *)

ScanRevs == {"logicalErrors_a", "logicalErrors_b", "part_001"}

\* Statements the loop and array rules react to
AllocLine       == "int[] arr = new int[5];"
AllocForLine    == "int[] arr = new int[5]; for(int i=0;i<=5;i++){ arr[i]=i; }"
ForLeLine       == "for (int i = 0; i <= 5; i++) {"
AccessOob       == "arr[5] = 1;"
AccessInThenOob == "arr[0] = arr[5];"
AnonAlloc       == "return new int[5];"
WhileTrue       == "while (true) {"
BreakInIf       == "if (done) break;"
AssignAB        == "a = b;"
AssignBAB       == "b = a + b;"
FactLine        == "fact = fact * i;"
ForLtN          == "for (int i = 1; i < n; i++) {"

\* The number of characters of a statement ("\n" is one character)
AtomLen(atom) ==
    CASE atom = NL -> 1
      [] atom = ClassLine -> 12
      [] atom = MainLine -> 40
      [] atom = PrintLine -> 25
      [] atom = PrintNoSemi -> 24
      [] atom = DivZeroLine -> 14
      [] atom = CloseLine -> 1
      [] atom = PrintfLine -> 13
      [] atom = AllocLine -> 23
      [] atom = AllocForLine -> 58
      [] atom = ForLeLine -> 30
      [] atom = AccessOob -> 11
      [] atom = AccessInThenOob -> 16
      [] atom = AnonAlloc -> 18
      [] atom = WhileTrue -> 14
      [] atom = BreakInIf -> 16
      [] atom = AssignAB -> 6
      [] atom = AssignBAB -> 10
      [] atom = FactLine -> 16
      [] atom = ForLtN -> 29

\* The index of "break" in a statement, if it occurs there
BreakOffset(atom) == IF atom = BreakInIf THEN Some(10) ELSE None

\* line.match(/new\s+\w+\[(\d+)\]/): the literal size
NewArraySize(atom) ==
    IF atom \in {AllocLine, AllocForLine, AnonAlloc} THEN Some(5) ELSE None

\* line.match(/(\w+)\s*=\s*new/): the variable assigned
VarBeforeNew(atom) ==
    IF atom \in {AllocLine, AllocForLine} THEN Some("arr") ELSE None

\* The sizes K for which /for\s*\([^;]+;\s*\w+\s*<=\s*K\s*;/ matches
ForLeBounds(atom) == IF atom \in {ForLeLine, AllocForLine} THEN {5} ELSE {}

\* loopLine.match(/name\[(\d+)\]/): match returns the first literal access only
FirstUsage(atom, name) ==
    IF name # "arr" THEN None
    ELSE IF atom = AccessOob THEN Some(5)
    ELSE IF atom = AccessInThenOob THEN Some(0)
    ELSE None

\* /while\s*\(\s*true\s*\)/.test(line) || /for\s*\(\s*;\s*;\s*\)/.test(line)
LoopsForever(atom) == atom = WhileTrue

\* The first match among the statements of a line
FirstSome(opts) ==
    IF \E k \in DOMAIN opts : IsSome(opts[k])
    THEN opts[CHOOSE k \in DOMAIN opts :
                 IsSome(opts[k]) /\ \A m \in DOMAIN opts : IsSome(opts[m]) => k <= m]
    ELSE None

Diagnostic(lineNum, severity, errorType, args) ==
    [line |-> lineNum, severity |-> severity, errorType |-> errorType, args |-> args]

RECURSIVE CharOffset(_, _)
\* The character index at which text[p] starts
CharOffset(text, p) ==
    IF p <= 1 THEN 0 ELSE CharOffset(text, p - 1) + AtomLen(text[p - 1])

\* code.slice(k).includes("break"): k is a character index into the whole text
SliceIncludesBreak(text, k) ==
    \E p \in 1..Len(text) :
        /\ IsSome(BreakOffset(text[p]))
        /\ CharOffset(text, p) + Val(BreakOffset(text[p])) >= k

\* Rule 1 of every revision; i is the 1-based line, the code slices at i - 1
InfiniteLoopRule(text, lines, i) ==
    IF /\ \E k \in DOMAIN lines[i] : LoopsForever(lines[i][k])
       /\ ~\E k \in DOMAIN lines[i] : IsSome(BreakOffset(lines[i][k]))
       /\ ~SliceIncludesBreak(text, i - 1)
    THEN <<Diagnostic(i, "warning", "INFINITE_RECURSION", <<>>)>>
    ELSE <<>>

\* Rule 2 of every revision: /\/\s*0\b/.test(line)
DivisionByZeroRule(lines, i) ==
    IF HasAtom(lines[i], {DivZeroLine})
    THEN <<Diagnostic(i, "error", "DIVISION_BY_ZERO", <<>>)>>
    ELSE <<>>

RECURSIVE ArrayLaterLines(_, _, _, _)
\* for (let j = i + 1; j < lines.length; j++): the lines after the allocation
ArrayLaterLines(lines, name, size, j) ==
    IF j > Len(lines) THEN <<>>
    ELSE LET usage == FirstSome([k \in DOMAIN lines[j] |-> FirstUsage(lines[j][k], name)])
         IN (IF \E k \in DOMAIN lines[j] : size \in ForLeBounds(lines[j][k])
             THEN <<Diagnostic(j, "warning", "OFF_BY_ONE", <<size>>)>> ELSE <<>>)
            \o (IF IsSome(usage) /\ Val(usage) >= size
                THEN <<Diagnostic(j, "error", "ARRAY_INDEX_OUT_OF_BOUNDS", <<size, Val(usage)>>)>>
                ELSE <<>>)
            \o ArrayLaterLines(lines, name, size, j + 1)

\* The array bounds rule; revision logicalErrors.ts 346-672 does not have it
HasArrayRule(rev) == rev # "logicalErrors_b"

ArrayBoundsRule(rev, lines, i) ==
    LET size == FirstSome([k \in DOMAIN lines[i] |-> NewArraySize(lines[i][k])])
        name == FirstSome([k \in DOMAIN lines[i] |-> VarBeforeNew(lines[i][k])])
    IN IF HasArrayRule(rev) /\ IsSome(size) /\ IsSome(name)
       THEN ArrayLaterLines(lines, Val(name), Val(size), i + 1)
       ELSE <<>>

\* The rule reporting the line after `a = b;` whatever that line holds
FibonacciRuleAnyNext(rev, lines, i) ==
    IF rev # "part_001" /\ HasAtom(lines[i], {AssignAB})
    THEN <<Diagnostic(i + 1, "error", "OTHER_LOGICAL", <<>>)>>
    ELSE <<>>

\* Rule 8 of logicalErrors.ts: /a\s*=\s*b\s*;/ on the line and
\* /b\s*=\s*a\s*\+\s*b/ on nextLine = lines[i + 1] || "", reported on the
\* next line
FibonacciRule(rev, lines, i) ==
    LET nextLine == IF i + 1 <= Len(lines) THEN lines[i + 1] ELSE <<>> IN
    IF rev # "part_001" /\ HasAtom(lines[i], {AssignAB}) /\ HasAtom(nextLine, {AssignBAB})
    THEN <<Diagnostic(i + 1, "error", "OTHER_LOGICAL", <<>>)>>
    ELSE <<>>

\* The document-wide factorial rule after the loop: both patterns somewhere
\* in code, reported on lines.findIndex(loop pattern) + 1 when it is not -1
FactorialRule(text, lines) ==
    LET loopLines == { j \in DOMAIN lines : HasAtom(lines[j], {ForLtN}) } IN
    IF HasAtom(text, {FactLine}) /\ HasAtom(text, {ForLtN}) /\ loopLines # {}
    THEN <<Diagnostic(CHOOSE j \in loopLines : \A m \in loopLines : j <= m,
                      "warning", "OFF_BY_ONE", <<>>)>>
    ELSE <<>>

RECURSIVE ScanFrom(_, _, _, _)
\* for (let i = 0; i < lines.length; i++): the diagnostics of lines i.., in order
ScanFrom(rev, text, lines, i) ==
    IF i > Len(lines) THEN <<>>
    ELSE InfiniteLoopRule(text, lines, i)
           \o DivisionByZeroRule(lines, i)
           \o FibonacciRule(rev, lines, i)
           \o ArrayBoundsRule(rev, lines, i)
           \o ScanFrom(rev, text, lines, i + 1)

\* The revision of logicalErrors.ts lines 19-326 reads `line`, `lineNum` and `i`
\* after the for loop that declares them (line 253): a ReferenceError, on every
\* document. The other two revisions keep every rule inside the loop.
ScanThrows(rev) == rev = "logicalErrors_a"

DetectLogicalErrors(rev, text) ==
    [threw |-> ScanThrows(rev),
     errors |-> IF ScanThrows(rev) THEN <<>>
                ELSE ScanFrom(rev, text, SplitLines(text), 1)
                       \o FactorialRule(text, SplitLines(text))]

----------------------------------------------------------------------------
(* CompilerResult and the local tiers *)

MkResult(out, ec, type, errs) ==
    [output |-> out, exitCode |-> ec, outputType |-> type, logicalErrors |-> errs,
     isForeignLanguage |-> FALSE, detectedLanguage |-> None]

\* What a tier function hands back: a value, or the exception it threw.
Returned(r) == [threw |-> FALSE, value |-> r]
Thrown      == [threw |-> TRUE, value |-> MkResult(None, None, "info", <<>>)]

RECURSIVE PrintedLiterals(_)
\* for (const match of printMatches) runOutput += match[1] + "\n"
PrintedLiterals(text) ==
    IF text = <<>> THEN <<>>
    ELSE (IF Head(text) = PrintLine THEN <<"hi", NL>> ELSE <<>>) \o PrintedLiterals(Tail(text))

\* String.prototype.trim() on an output buffer: drops the trailing newline
Trim(text) == IF text # <<>> /\ text[Len(text)] = NL THEN SubSeq(text, 1, Len(text) - 1) ELSE text

\* The checks both revisions of localSimulation make before simulating.
SyntaxHeuristics(text) ==
    IF ~HasMainClass(text)
    THEN Some(<<"Error: Could not find or load main class. Ensure you have a 'public class Main'.">>)
    ELSE IF ~HasMainMethod(text)
    THEN Some(<<"Error: Main method not found in class. Please define 'public static void main(String[] args)'.">>)
    ELSE IF HasMissingSemicolon(text) THEN Some(<<"error: ';' expected">>)
    ELSE IF OpenBraces(text) > CloseBraces(text)
    THEN Some(<<"error: reached end of file while parsing">>)
    ELSE None

\* localSimulation of compiler.ts
LocalSimulationRegex(rev, text) ==
    LET scan == DetectLogicalErrors(rev, text)
        bad  == SyntaxHeuristics(text)
        out  == IF PrintedLiterals(text) # <<>> THEN Trim(PrintedLiterals(text))
                ELSE IF HasAtom(text, {PrintLine, PrintNoSemi})
                THEN <<"(Output simulated: Program ran successfully)">>
                ELSE <<"Program executed. (No output)">>
    IN IF scan.threw THEN Thrown
       ELSE IF IsSome(bad) THEN Returned(MkResult(bad, Some(1), "error", scan.errors))
       ELSE Returned(MkResult(Some(out), Some(0), "success", scan.errors))

RECURSIVE InterpretFrom(_, _, _)
\* The mini-interpreter loop of the other localSimulation: lines after the one
\* holding "public static void main" are executed; "/ 0" throws an
\* ArithmeticException, println appends its literal to the output buffer.
InterpretFrom(lines, i, inMain) ==
    IF i > Len(lines) THEN [threw |-> FALSE, out |-> <<>>]
    ELSE IF HasAtom(lines[i], {MainLine}) THEN InterpretFrom(lines, i + 1, TRUE)
    ELSE IF ~inMain THEN InterpretFrom(lines, i + 1, inMain)
    ELSE IF HasAtom(lines[i], {DivZeroLine}) THEN [threw |-> TRUE, out |-> <<>>]
    ELSE LET rest == InterpretFrom(lines, i + 1, inMain) IN
         IF rest.threw THEN rest
         ELSE [threw |-> FALSE,
               out |-> (IF HasAtom(lines[i], {PrintLine}) THEN <<"hi", NL>> ELSE <<>>) \o rest.out]

\* localSimulation of the mini-interpreter revision
LocalSimulationInterp(rev, text) ==
    LET scan == DetectLogicalErrors(rev, text)
        bad  == SyntaxHeuristics(text)
        run  == InterpretFrom(SplitLines(text), 1, FALSE)
        out  == IF run.out = <<>>
                THEN <<"Program executed. (No output captured or logic too complex for local simulation)">>
                ELSE Trim(run.out)
    IN IF scan.threw THEN Thrown
       ELSE IF IsSome(bad) THEN Returned(MkResult(bad, Some(1), "error", scan.errors))
       ELSE IF run.threw
       THEN Returned(MkResult(Some(<<"Exception in thread \"main\" java.lang.ArithmeticException: / by zero">>),
                              Some(1), "error", scan.errors))
       ELSE Returned(MkResult(Some(out), Some(0), "success", scan.errors))

RECURSIVE OfflineFrom(_, _, _)
\* The loop of fallbackSimulation: println lines after main are echoed.
OfflineFrom(lines, i, inMain) ==
    IF i > Len(lines) THEN <<>>
    ELSE IF HasAtom(lines[i], {MainLine}) THEN OfflineFrom(lines, i + 1, TRUE)
    ELSE IF ~inMain THEN OfflineFrom(lines, i + 1, inMain)
    ELSE (IF HasAtom(lines[i], {PrintLine}) THEN <<"hi", NL>> ELSE <<>>)
             \o OfflineFrom(lines, i + 1, inMain)

OfflineBanner == "API CONNECTION FAILED - USING OFFLINE SIMULATION"

\* fallbackSimulation: the scanner runs before the try block
FallbackSimulation(rev, text) ==
    LET scan == DetectLogicalErrors(rev, text)
        run  == OfflineFrom(SplitLines(text), 1, FALSE)
        out  == IF run = <<>>
                THEN <<"Program executed in Offline Mode. (Output could not be simulated locally)">>
                ELSE run
    IN IF scan.threw THEN Thrown
       ELSE Returned(MkResult(Some(<<OfflineBanner, NL, NL>> \o out), Some(0), "warning",
                              scan.errors))

----------------------------------------------------------------------------
(* Remote sandbox tier: executeJavaCode and what the execution service answers *)

JavacError   == "Main.java:3: error: ';' expected"
GccError     == "main.c:3: error: expected ';'"
BraceError   == "main.c:9: error: expected '}' at end of input"
ThreadDeath  == "Exception in thread \"main\" java.lang.ArithmeticException: / by zero"

PistonBody(compile, run) == [kind |-> "ok", compile |-> compile, run |-> run]
NoBody == PistonBody(None, None)

RemoteAnswers ==
    { [NoBody EXCEPT !.kind = k] : k \in {"timeout", "network", "http"} } \cup
    { \* compiled and ran
      PistonBody(Some([code |-> 0, stderr |-> <<>>, stdout |-> <<>>]),
                 Some([output |-> Some(<<"hi">>), code |-> 0])),
      \* javac rejected the program
      PistonBody(Some([code |-> 1, stderr |-> <<JavacError>>, stdout |-> <<>>]),
                 Some([output |-> Some(<<>>), code |-> 0])),
      \* javac failed without any text
      PistonBody(Some([code |-> 1, stderr |-> <<>>, stdout |-> <<>>]),
                 Some([output |-> Some(<<>>), code |-> 0])),
      \* the program died at run time
      PistonBody(None, Some([output |-> Some(<<ThreadDeath>>), code |-> 1])),
      \* a body without the run object
      PistonBody(None, None) }

\* The service sent its status line and headers and never completes the
\* body: `await response.json()` runs after clearTimeout and nothing bounds it
Stalled == [NoBody EXCEPT !.kind = "stalled"]

\* executeJavaCode: the 5 s abort, a transport failure and a non-2xx status all
\* end in a throw; a 2xx body is returned as parsed. clearTimeout runs after
\* the await of fetch when it resolved, and first thing in the catch block.
\* The abort rejects fetch with an AbortError, which the catch block replaces
\* by the timed-out error; every other error is rethrown as it is.
ExecuteJavaCode(answer) ==
    LET fetched    == answer.kind \in {"ok", "http", "stalled"}
        thrown     == answer.kind \in {"timeout", "network", "http"}
        clearedTry == fetched
        clearedCatch == thrown
    IN [threw |-> thrown, body |-> answer,
        timerCleared |-> clearedTry \/ clearedCatch,
        error |-> IF answer.kind = "timeout" THEN "timed_out"
                  ELSE IF thrown THEN answer.kind ELSE "none"]

\* a || b || c on strings
OrText(a, b) == IF a # <<>> THEN a ELSE b

\* The try block of runJavaCompilerSimulation over the remote sandbox. withScan
\* tells the revision that merges detectLogicalErrors from the one that does not.
\* result.run.output and output.includes throw a TypeError on a missing value.
RemoteTry(answer, rev, text, withScan) ==
    LET call == ExecuteJavaCode(answer)
        body == call.body
        compileFailed == IsSome(body.compile) /\ Val(body.compile).code # 0
        c    == Val(body.compile)
        r    == Val(body.run)
        out  == IF compileFailed
                THEN Some(OrText(OrText(c.stderr, c.stdout), <<"Compilation Failed">>))
                ELSE r.output
        ec   == IF compileFailed THEN c.code ELSE r.code
        type == IF compileFailed \/ ec # 0 THEN "error" ELSE "success"
        scan == IF withScan THEN DetectLogicalErrors(rev, text)
                ELSE [threw |-> FALSE, errors |-> <<>>]
        died == IF HasAtom(Val(out), {ThreadDeath})
                THEN <<Diagnostic(0, "error", "OTHER_LOGICAL", <<>>)>>
                ELSE <<>>
    IN IF call.threw THEN Thrown
       ELSE IF ~compileFailed /\ ~IsSome(body.run) THEN Thrown
       ELSE IF scan.threw \/ ~IsSome(out) THEN Thrown
       ELSE Returned(MkResult(out, Some(ec), type, scan.errors \o died))

\* The catch block of the revision without a fallback
EngineErrorResult ==
    MkResult(Some(<<"Error connecting to Execution Engine: ">>), Some(1), "error", <<>>)

----------------------------------------------------------------------------
(* AI tier: callGroqAPI and what the model gateway answers *)

\* A JSON object of the model, with the fields the engine reads.
JsonObject == [output |-> None, exitCode |-> None, logicalErrors |-> None,
               isForeignLanguage |-> FALSE, detectedLanguage |-> None,
               corrected_code |-> None, minimal_fix_patches |-> None,
               minimal_fix_patch |-> None]

\* The object callGroqAPI substitutes in JSON mode when the call failed.
MockResponse == [JsonObject EXCEPT !.minimal_fix_patches = Some(<<>>)]

AiAnswer(kind, json) == [kind |-> kind, json |-> json]

\* kind "json": the content parsed; json is None for the JSON text `null`.
AiFailures == { AiAnswer(k, None) : k \in {"network", "http", "empty", "unparseable"} }

\* The gateway never answers: the fetch of callGroqAPI has no signal and no
\* timer, so its promise never settles
Silent == AiAnswer("silent", None)

\* The promise the request awaits never settles
NeverSettles(answer) == answer.kind \in {"stalled", "silent"}

\* callGroqAPI(messages, true): every failure inside its try block is caught and
\* answered with the mock object, so the call itself does not throw.
CallGroqAPI(answer) ==
    IF answer.kind = "json" THEN [threw |-> FALSE, value |-> answer.json]
    ELSE [threw |-> FALSE, value |-> Some(MockResponse)]

\* The try block of runJavaCompilerSimulation over the AI tier: response.output
\* throws a TypeError when the response is null.
AiTry(answer) ==
    LET call == CallGroqAPI(answer) IN
    IF call.threw \/ ~IsSome(call.value) THEN Thrown
    ELSE LET r == Val(call.value) IN
         Returned([output |-> r.output,
                   exitCode |-> r.exitCode,
                   outputType |-> IF r.exitCode = Some(0) THEN "success" ELSE "error",
                   logicalErrors |-> IF IsSome(r.logicalErrors) THEN Val(r.logicalErrors) ELSE <<>>,
                   isForeignLanguage |-> r.isForeignLanguage,
                   detectedLanguage |-> r.detectedLanguage])

\* callGroqAPI(messages, false): the content as text. Every failure inside
\* the try block is caught and answered with the sentence of the mock mode;
\* the call rejects only when the catch block itself fails, on the import of
\* the mock module ("offline": no transport and the module cannot be loaded).
MockText == <<"AI Translation Unavailable in Mock Mode.">>

CallGroqAPIText(answer) ==
    IF answer.kind = "text" THEN [threw |-> FALSE, value |-> Val(answer.json)]
    ELSE IF answer.kind = "offline" THEN [threw |-> TRUE, value |-> <<>>]
    ELSE [threw |-> FALSE, value |-> MockText]

\* the Java text convertToJava returns from its catch block
FallbackSkeleton ==
    Lines(<<"public class Main {",
            "    public static void main(String[] args) {",
            "        // Error: AI Service Unavailable for full translation.",
            "        // Copy your logic here manually.",
            "        System.out.println(\"Please check API connection.\");",
            "    }",
            "}">>)

\* convertToJava(code, sourceLang)
ConvertToJava(answer) ==
    LET call == CallGroqAPIText(answer) IN
    IF call.threw THEN FallbackSkeleton ELSE Trim(call.value)

ConvertAnswers ==
    { AiAnswer("text", Some(SrcOk)), AiAnswer("text", Some(SrcOk \o <<NL>>)) } \cup
    { AiAnswer(k, None) : k \in {"network", "http", "empty", "offline"} }

AiCompileAnswers ==
    AiFailures \cup
    { AiAnswer("json", None),
      AiAnswer("json", Some(JsonObject)),
      AiAnswer("json", Some([JsonObject EXCEPT !.output = Some(<<"hi">>), !.exitCode = Some(0),
                                               !.logicalErrors = Some(<<>>)])),
      AiAnswer("json", Some([JsonObject EXCEPT !.output = Some(<<GccError>>), !.exitCode = Some(1),
                                               !.logicalErrors = Some(<<>>)])),
      AiAnswer("json", Some([JsonObject EXCEPT !.output = Some(<<"hi">>), !.exitCode = Some(0),
                                               !.logicalErrors =
                                                   Some(<<Diagnostic(3, "error", "DIVISION_BY_ZERO", <<>>)>>)])),
      AiAnswer("json", Some([JsonObject EXCEPT !.output = Some(<<"Detected C code. This compiler only supports Java.">>),
                                               !.exitCode = Some(1), !.logicalErrors = Some(<<>>),
                                               !.isForeignLanguage = TRUE,
                                               !.detectedLanguage = Some("C")])),
      AiAnswer("json", Some([JsonObject EXCEPT !.output = Some(<<"Detected C code. This compiler only supports Java.">>),
                                               !.exitCode = Some(1), !.logicalErrors = Some(<<>>),
                                               !.isForeignLanguage = TRUE])) }

FixPatch == [line_start |-> 3, line_end |-> 3, replacement |-> Some(<<PrintLine>>)]

AiExplainAnswers ==
    { AiAnswer("network", None),
      AiAnswer("json", None),
      AiAnswer("json", Some([JsonObject EXCEPT !.corrected_code = Some(SrcOk)])),
      AiAnswer("json", Some([JsonObject EXCEPT !.minimal_fix_patches = Some(<<FixPatch>>),
                                               !.minimal_fix_patch = Some(FixPatch)])),
      AiAnswer("json", Some([JsonObject EXCEPT !.minimal_fix_patches = Some(<<FixPatch>>)])) }

----------------------------------------------------------------------------
(* Persistence: run history and mistake counts *)

HistoryCap == 20

\* The item under 'compile_history'. kind "absent": getItem returns null;
\* "text": not JSON; "null", "number", "string", "object": JSON of that type;
\* "array": a JSON array, its elements in list.
NoHistory == [kind |-> "absent", list |-> <<>>]
StoredList(list) == [kind |-> "array", list |-> list]
CorruptHistoryKinds == {"text", "null", "number", "string", "object"}

\* id: Date.now().toString(), later for a later run
HistoryId(n) == HistoryCap + n

\* A save that puts the new record last and keeps the oldest records
SaveHistoryOldest(stored, item) ==
    IF stored.kind \in {"absent", "array"}
    THEN StoredList(SubSeq(stored.list \o <<item>>, 1, Min(Len(stored.list) + 1, HistoryCap)))
    ELSE stored

\* existingHistory = JSON.parse(getItem('compile_history') || '[]');
\* setItem('compile_history', JSON.stringify([historyItem, ...existingHistory].slice(0, 20)))
\* inside try/catch: JSON.parse throws on text that is no JSON, the spread
\* throws on null, a number and an object (not iterable), and then nothing
\* is written; the spread of the stored string "ab" yields its characters.
SaveHistory(stored, item) ==
    IF stored.kind \in {"absent", "array"}
    THEN StoredList(SubSeq(<<item>> \o stored.list, 1, Min(Len(stored.list) + 1, HistoryCap)))
    ELSE IF stored.kind = "string" THEN StoredList(<<item, "a", "b">>)
    ELSE stored

\* setItem ran
HistoryWritten(stored) == stored.kind \in {"absent", "array", "string"}

Symbols == {";", "}"}

\* ERROR_PATTERNS, in the order forEach visits them
ErrorPatterns == <<";", "}">>

\* p.regex.test(output). The javac wording "';' expected" has the symbol
\* before the word and matches none of the patterns.
PatternMatches(char, text) ==
    \/ char = ";" /\ HasAtom(text, {GccError})
    \/ char = "}" /\ HasAtom(text, {BraceError})

MatchedSymbols(text) == {char \in Symbols : PatternMatches(char, text)}

\* The item under 'mistake_counts'. kind "absent": getItem returns null;
\* "text": not JSON; "null", "number", "string", "array": JSON of that type;
\* "object": a JSON object, its keys in insertion order in map.
NoItem == [kind |-> "absent", map |-> <<>>]
StoredObject(map) == [kind |-> "object", map |-> map]
CorruptKinds == {"text", "null", "number", "string", "array"}
Corrupted(kind) == [kind |-> kind, map |-> <<>>]

\* counts[char]
RECURSIVE Lookup(_, _)
Lookup(map, char) ==
    IF map = <<>> THEN None
    ELSE IF Head(map).char = char THEN Some(Head(map).count)
    ELSE Lookup(Tail(map), char)

\* counts[char] || 0
CountOr0(map, char) == IF Lookup(map, char) = None THEN 0 ELSE Val(Lookup(map, char))

\* counts[char] = n: an existing key keeps its place, a new key goes last
SetCount(map, char, n) ==
    IF Lookup(map, char) = None THEN Append(map, [char |-> char, count |-> n])
    ELSE [k \in DOMAIN map |-> IF map[k].char = char THEN [char |-> char, count |-> n]
                               ELSE map[k]]

\* delete counts[char]
RECURSIVE DeleteKey(_, _)
DeleteKey(map, char) ==
    IF map = <<>> THEN <<>>
    ELSE IF Head(map).char = char THEN DeleteKey(Tail(map), char)
    ELSE <<Head(map)>> \o DeleteKey(Tail(map), char)

\* loadCounts(): the value it returns and the item it leaves in the storage
LoadCounts(store) ==
    IF store.kind = "absent" THEN [counts |-> StoredObject(<<>>), store |-> store]
    ELSE IF store.kind = "text" THEN [counts |-> StoredObject(<<>>), store |-> NoItem]
    ELSE [counts |-> store, store |-> store]

\* The same loop adding one per occurrence of the signature instead of one per call
RECURSIVE ApplyPatternsPerMatch(_, _, _)
ApplyPatternsPerMatch(map, text, k) ==
    IF k > Len(ErrorPatterns) THEN map
    ELSE ApplyPatternsPerMatch(
             IF PatternMatches(ErrorPatterns[k], text)
             THEN SetCount(map, ErrorPatterns[k],
                           CountOr0(map, ErrorPatterns[k])
                             + Len(SelectSeq(text, LAMBDA a : PatternMatches(ErrorPatterns[k], <<a>>))))
             ELSE map,
             text, k + 1)

\* ERROR_PATTERNS.forEach(p => { if (p.regex.test(output)) counts[p.char] = (counts[p.char] || 0) + 1 })
RECURSIVE ApplyPatterns(_, _, _)
ApplyPatterns(map, text, k) ==
    IF k > Len(ErrorPatterns) THEN map
    ELSE ApplyPatterns(IF PatternMatches(ErrorPatterns[k], text)
                       THEN SetCount(map, ErrorPatterns[k], CountOr0(map, ErrorPatterns[k]) + 1)
                       ELSE map,
                       text, k + 1)

\* trackMistakes(output): undefined and "" return before touching the storage.
\* notified: window.dispatchEvent(new Event('storage')) ran, which is only
\* after setItem; the removeItem of loadCounts dispatches nothing.
\* TrackAfterLoad is the call from the value loadCounts() returned on: what
\* it writes with setItem (None: nothing), what it returns.
\* A property read on null throws, a property write on a number or a string
\* throws in module code; both are caught and false is returned. A property
\* written on an array is left out by JSON.stringify.
TrackAfterLoad(counts, text) ==
    IF MatchedSymbols(text) = {} THEN [write |-> None, returned |-> FALSE, notified |-> FALSE]
    ELSE IF counts.kind = "object"
         THEN [write |-> Some(StoredObject(ApplyPatterns(counts.map, text, 1))),
               returned |-> TRUE, notified |-> TRUE]
    ELSE IF counts.kind = "array"
         THEN [write |-> Some(counts), returned |-> TRUE, notified |-> TRUE]
    ELSE [write |-> None, returned |-> FALSE, notified |-> FALSE]

\* One call running alone: nothing comes between loadCounts() and setItem
TrackMistakes(store, out) ==
    IF ~TruthyText(out) THEN [store |-> store, returned |-> FALSE, notified |-> FALSE]
    ELSE LET ld == LoadCounts(store)
             r == TrackAfterLoad(ld.counts, Val(out))
         IN [store |-> IF r.write = None THEN ld.store ELSE Val(r.write),
             returned |-> r.returned, notified |-> r.notified]

\* .sort((a, b) => b.count - a.count): stable, larger counts first
RECURSIVE InsertByCount(_, _)
InsertByCount(sorted, r) ==
    IF sorted = <<>> THEN <<r>>
    ELSE IF Head(sorted).count >= r.count THEN <<Head(sorted)>> \o InsertByCount(Tail(sorted), r)
    ELSE <<r>> \o sorted

RECURSIVE SortByCount(_)
SortByCount(records) ==
    IF records = <<>> THEN <<>>
    ELSE InsertByCount(SortByCount(SubSeq(records, 1, Len(records) - 1)), records[Len(records)])

\* Object.keys(counts).map(char => ({ char_text: char, count: counts[char] }))
\* of the stored string "ab" and of the stored array [1,2]
StringRecords == <<[char_text |-> "0", count |-> "a"], [char_text |-> "1", count |-> "b"]>>
ArrayRecords == <<[char_text |-> "0", count |-> 1], [char_text |-> "1", count |-> 2]>>

\* getMistakes(): Object.keys(null) throws and nothing catches it
GetMistakes(store) ==
    LET ld == LoadCounts(store) IN
    IF ld.counts.kind = "null" THEN [store |-> ld.store, threw |-> TRUE, list |-> <<>>]
    ELSE IF ld.counts.kind = "number" THEN [store |-> ld.store, threw |-> FALSE, list |-> <<>>]
    ELSE IF ld.counts.kind = "string"
         THEN [store |-> ld.store, threw |-> FALSE, list |-> StringRecords]
    ELSE IF ld.counts.kind = "array"
         THEN [store |-> ld.store, threw |-> FALSE, list |-> SortByCount(ArrayRecords)]
    ELSE [store |-> ld.store, threw |-> FALSE,
          list |-> SortByCount([k \in DOMAIN ld.counts.map |->
                                  [char_text |-> ld.counts.map[k].char,
                                   count |-> ld.counts.map[k].count]])]

\* A reset that forgets every symbol
ResetMistakeAll(store, char) ==
    LET ld == LoadCounts(store) IN
    IF ld.counts.kind = "null" THEN [store |-> ld.store, threw |-> TRUE, notified |-> FALSE]
    ELSE [store |-> StoredObject(<<>>), threw |-> FALSE, notified |-> TRUE]

\* resetMistake(char): null[char] throws and nothing catches it
ResetMistake(store, char) ==
    LET ld == LoadCounts(store) IN
    IF ld.counts.kind = "null" THEN [store |-> ld.store, threw |-> TRUE, notified |-> FALSE]
    ELSE IF ld.counts.kind = "object" /\ CountOr0(ld.counts.map, char) # 0
         THEN [store |-> StoredObject(DeleteKey(ld.counts.map, char)), threw |-> FALSE,
               notified |-> TRUE]
    ELSE [store |-> ld.store, threw |-> FALSE, notified |-> FALSE]

\* resetAllMistakes(): localStorage.removeItem(STORAGE_KEY_COUNTS)
ResetAllMistakes(store) == NoItem

\* [...result.output.matchAll(/:(\d+):\s+error:/g)].map(m => parseInt(m[1]))
RECURSIVE ErrorLinesOf(_)
ErrorLinesOf(text) ==
    IF text = <<>> THEN <<>>
    ELSE (IF Head(text) \in {JavacError, GccError} THEN <<3>> ELSE <<>>) \o ErrorLinesOf(Tail(text))

\* result.logicalErrors.map(e => e.line).filter(l => l > 0)
RECURSIVE PositiveLines(_)
PositiveLines(errs) ==
    IF errs = <<>> THEN <<>>
    ELSE (IF Head(errs).line > 0 THEN <<Head(errs).line>> ELSE <<>>) \o PositiveLines(Tail(errs))

----------------------------------------------------------------------------
(* The editor page: state after construction *)

MaxRuns == 1

OrchRevs == {"ai_regex", "ai_interp", "remote_fallback", "remote_only"}
RemoteRevs == {"remote_fallback", "remote_only"}

NoResult == [status |-> "none", value |-> MkResult(None, None, "info", <<>>)]
NoRemoteCall == [done |-> FALSE, threw |-> FALSE, timerCleared |-> FALSE, error |-> "none"]
NoTierIn == [remote |-> NoBody, ai |-> AiAnswer("none", None), call |-> NoRemoteCall]
NoRun == [foreignStop |-> FALSE, threw |-> FALSE, errorLinesSet |-> FALSE,
          historySaved |-> FALSE, tracked |-> FALSE, analyze |-> FALSE,
          explained |-> FALSE, histStart |-> NoHistory, histBefore |-> NoHistory,
          recorded |-> <<>>]

NoScan == [called |-> FALSE, threw |-> FALSE, errors |-> <<>>]
NoConvert == [called |-> FALSE, answer |-> AiAnswer("none", None), before |-> <<>>,
              returned |-> <<>>]

Tabs == {1, 2}
NoTabs == [t \in Tabs |-> [pc |-> "idle", calls |-> 0, out |-> None, counts |-> NoItem]]

NoCall == [op |-> "none", calls |-> 0, start |-> NoItem, before |-> NoItem, out |-> None,
           char |-> "", threw |-> FALSE, returned |-> FALSE, list |-> <<>>,
           matching |-> [sym \in Symbols |-> 0], resets |-> FALSE, cleared |-> FALSE,
           notified |-> FALSE]

PageInit ==
    /\ output = Some(<<>>)
    /\ outputType = "info"
    /\ exitCode = None
    /\ showAIExplanation = FALSE
    /\ isRunning = FALSE
    /\ detectedLanguage = None
    /\ errorLines = <<>>
    /\ fixedLines = <<>>
    /\ history = NoHistory
    /\ mistakes = NoItem
    /\ pc = "idle"
    /\ runCode = <<>>
    /\ tiers = <<>>
    /\ tierIn = NoTierIn
    /\ result = NoResult
    /\ runs = 0
    /\ lastRun = NoRun
    /\ lastApply = NoApply
    /\ scanned = NoScan
    /\ tabs = NoTabs
    /\ lastConvert = NoConvert
    /\ lastCall = NoCall

Init ==
    /\ orchRev \in OrchRevs
    /\ scanRev \in ScanRevs
    /\ code \in SourceTexts
    /\ aiExplanation = None
    /\ PageInit

----------------------------------------------------------------------------
(* handleRunCode and the tiers it awaits *)

\* CodeEditor onChange: setCode(value || "")
EditCode ==
    /\ \E text \in EditTexts : code' = text
    /\ UNCHANGED <<orchRev, scanRev, lastConvert, tabs, scanned, lastCall, output, outputType, exitCode, showAIExplanation,
                   aiExplanation, isRunning, detectedLanguage, errorLines, fixedLines,
                   history, mistakes, pc, runCode, tiers, tierIn, result, runs, lastRun,
                   lastApply>>

\* The Run button (disabled while isRunning) up to the first await
\* <Button onClick={handleRunCode} disabled={isRunning}>: the only caller
RunButtonEnabled == ~isRunning

RunStart ==
    /\ RunButtonEnabled
    /\ pc = "idle"
    /\ runs < MaxRuns
    /\ output' = Some(<<>>)
    /\ outputType' = "info"
    /\ exitCode' = None
    /\ showAIExplanation' = FALSE
    /\ aiExplanation' = None
    /\ isRunning' = TRUE
    /\ runCode' = code
    /\ tiers' = <<>>
    /\ tierIn' = NoTierIn
    /\ result' = NoResult
    /\ runs' = runs + 1
    /\ lastRun' = [NoRun EXCEPT !.histStart = lastRun.histStart,
                                !.recorded = lastRun.recorded]
    /\ lastApply' = NoApply
    /\ pc' = IF orchRev \in RemoteRevs THEN "remote" ELSE "ai"
    /\ UNCHANGED <<orchRev, scanRev, lastConvert, tabs, scanned, lastCall, code, detectedLanguage, errorLines, fixedLines,
                   history, mistakes>>

RunFrame == <<orchRev, scanRev, lastConvert, tabs, scanned, lastCall, code, output, outputType, exitCode, showAIExplanation,
              aiExplanation, isRunning, detectedLanguage, errorLines, fixedLines,
              history, mistakes, runCode, runs, lastRun, lastApply>>

\* runJavaCompilerSimulation over the remote sandbox: try block and catch
TierRemote ==
    /\ pc = "remote"
    /\ \E answer \in RemoteAnswers \cup {Stalled} :
          LET r == RemoteTry(answer, scanRev, runCode, orchRev = "remote_fallback") IN
          /\ tierIn' = [tierIn EXCEPT !.remote = answer,
                                      !.call = [done |-> TRUE,
                                                threw |-> ExecuteJavaCode(answer).threw,
                                                timerCleared |-> ExecuteJavaCode(answer).timerCleared,
                                                error |-> ExecuteJavaCode(answer).error]]
          /\ IF NeverSettles(answer) THEN result' = result /\ pc' = "hung"
             ELSE IF ~r.threw
             THEN result' = [status |-> "ok", value |-> r.value] /\ pc' = "post"
             ELSE IF orchRev = "remote_only"
             THEN result' = [status |-> "ok", value |-> EngineErrorResult] /\ pc' = "post"
             ELSE result' = result /\ pc' = "local"
    /\ tiers' = Append(tiers, "remote")
    /\ UNCHANGED RunFrame

\* runJavaCompilerSimulation over the AI tier: try block and catch
TierAI ==
    /\ pc = "ai"
    /\ \E answer \in AiCompileAnswers \cup {Silent} :
          LET r == AiTry(answer) IN
          /\ tierIn' = [tierIn EXCEPT !.ai = answer]
          /\ IF NeverSettles(answer) THEN result' = result /\ pc' = "hung"
             ELSE IF ~r.threw
             THEN result' = [status |-> "ok", value |-> r.value] /\ pc' = "post"
             ELSE result' = result /\ pc' = "local"
    /\ tiers' = Append(tiers, "ai")
    /\ UNCHANGED RunFrame

\* The local tier the deployed revision falls back to.
LocalTier(orch, rev, text) ==
    CASE orch = "ai_regex"  -> LocalSimulationRegex(rev, text)
      [] orch = "ai_interp" -> LocalSimulationInterp(rev, text)
      [] OTHER              -> FallbackSimulation(rev, text)

\* return localSimulation(code, userInputs) inside the catch block: an exception
\* of the local tier rejects the promise of runJavaCompilerSimulation.
TierLocal ==
    /\ pc = "local"
    /\ LET r == LocalTier(orchRev, scanRev, runCode) IN
          result' = IF r.threw THEN [NoResult EXCEPT !.status = "rejected"]
                    ELSE [status |-> "ok", value |-> r.value]
    /\ tiers' = Append(tiers, "local")
    /\ pc' = "post"
    /\ UNCHANGED <<tierIn>>
    /\ UNCHANGED RunFrame

\* The rest of handleRunCode after `await runJavaCompilerSimulation(...)` up to
\* the request of an explanation; the catch and finally blocks included.
PostProcess ==
    /\ pc = "post"
    /\ LET res      == result.value
           foreign  == res.isForeignLanguage /\ IsSome(res.detectedLanguage)
           \* result.output.matchAll on an undefined output: TypeError
           throws   == res.logicalErrors = <<>> /\ res.exitCode # Some(0) /\ ~IsSome(res.output)
           analyze  == res.exitCode # Some(0) \/ res.logicalErrors # <<>>
           item     == [status |-> IF res.exitCode = Some(0) /\ res.logicalErrors = <<>>
                                   THEN "done" ELSE "error",
                        code |-> runCode, id |-> HistoryId(runs)]
       IN IF result.status = "rejected"
          THEN /\ lastRun' = [lastRun EXCEPT !.threw = TRUE]
               /\ isRunning' = FALSE
               /\ pc' = "idle"
               /\ UNCHANGED <<output, outputType, exitCode, detectedLanguage, errorLines,
                              history, mistakes>>
          ELSE /\ output' = res.output
               /\ exitCode' = res.exitCode
               /\ outputType' = res.outputType
               /\ IF foreign
                  THEN /\ detectedLanguage' = res.detectedLanguage
                       /\ lastRun' = [lastRun EXCEPT !.foreignStop = TRUE]
                       /\ isRunning' = FALSE
                       /\ pc' = "idle"
                       /\ UNCHANGED <<errorLines, history, mistakes>>
                  ELSE /\ detectedLanguage' = None
                       /\ IF throws
                          THEN /\ lastRun' = [lastRun EXCEPT !.threw = TRUE]
                               /\ isRunning' = FALSE
                               /\ pc' = "idle"
                               /\ UNCHANGED <<errorLines, history, mistakes>>
                          ELSE /\ errorLines' =
                                     IF res.logicalErrors # <<>> THEN PositiveLines(res.logicalErrors)
                                     ELSE IF res.exitCode # Some(0) THEN ErrorLinesOf(Val(res.output))
                                     ELSE <<>>
                               /\ history' = SaveHistory(history, item)
                               /\ mistakes' = TrackMistakes(mistakes, res.output).store
                               /\ lastRun' = [lastRun EXCEPT !.errorLinesSet = TRUE,
                                                             !.historySaved = HistoryWritten(history),
                                                             !.histBefore = history,
                                                             !.recorded = <<item>> \o @,
                                                             !.tracked = TRUE,
                                                             !.analyze = analyze]
                               /\ isRunning' = isRunning
                               /\ pc' = "explain"
    /\ UNCHANGED <<orchRev, scanRev, lastConvert, tabs, scanned, lastCall, code, showAIExplanation, aiExplanation, fixedLines,
                   runCode, tiers, tierIn, result, runs, lastApply>>

\* The explanation (or audit) request of handleRunCode and its finally block
Explain ==
    /\ pc = "explain"
    /\ \E answer \in AiExplainAnswers \cup {Silent} :
          IF NeverSettles(answer)
          THEN /\ pc' = "hung"
               /\ UNCHANGED <<aiExplanation, outputType, showAIExplanation, lastRun, isRunning>>
          ELSE LET aiData == CallGroqAPI(answer).value IN
               /\ aiExplanation' = aiData
               /\ outputType' = IF /\ ~lastRun.analyze
                                   /\ IsSome(aiData)
                                   /\ IsSome(Val(aiData).minimal_fix_patches)
                                   /\ Val(Val(aiData).minimal_fix_patches) # <<>>
                                THEN "warning" ELSE outputType
               /\ showAIExplanation' = TRUE
               /\ lastRun' = [lastRun EXCEPT !.explained = TRUE]
               /\ isRunning' = FALSE
               /\ pc' = "idle"
    /\ UNCHANGED <<orchRev, scanRev, lastConvert, tabs, scanned, lastCall, code, output, exitCode, detectedLanguage, errorLines,
                   fixedLines, history, mistakes, runCode, tiers, tierIn, result, runs,
                   lastApply>>

----------------------------------------------------------------------------
(* handleApplyPatch as an action *)

HandleApplyPatch ==
    LET o == ApplyOutcome(aiExplanation, code) IN
    /\ code' = IF o.set THEN o.code ELSE code
    /\ fixedLines' = IF o.set THEN o.fixed ELSE fixedLines
    /\ lastApply' = [called |-> TRUE, branch |-> o.branch, threw |-> o.threw,
                     set |-> o.set, doc |-> code, expl |-> aiExplanation,
                     code |-> o.code, fixed |-> o.fixed]
    /\ UNCHANGED <<orchRev, scanRev, lastConvert, tabs, scanned, lastCall, output, outputType, exitCode, showAIExplanation,
                   aiExplanation, isRunning, detectedLanguage, errorLines, history,
                   mistakes, pc, runCode, tiers, tierIn, result, runs, lastRun>>

\* The Auto Fix buttons are rendered when the explanation has a corrected_code
\* or a minimal_fix_patch.
AutoFixRendered ==
    /\ IsSome(aiExplanation)
    /\ \/ TruthyText(Val(aiExplanation).corrected_code)
       \/ IsSome(Val(aiExplanation).minimal_fix_patch)

ClickAutoFix == AutoFixRendered /\ HandleApplyPatch

\* setTimeout(() => setFixedLines([]), 3000)
ClearFixedLines ==
    /\ fixedLines # <<>>
    /\ fixedLines' = <<>>
    /\ UNCHANGED <<orchRev, scanRev, lastConvert, tabs, scanned, lastCall, code, output, outputType, exitCode, showAIExplanation,
                   aiExplanation, isRunning, detectedLanguage, errorLines, history,
                   mistakes, pc, runCode, tiers, tierIn, result, runs, lastRun, lastApply>>

Next ==
    \/ EditCode
    \/ RunStart
    \/ TierRemote
    \/ TierAI
    \/ TierLocal
    \/ PostProcess
    \/ Explain
    \/ ClickAutoFix
    \/ ClearFixedLines

Spec == Init /\ [][Next]_vars

\* The event loop runs every continuation of handleRunCode whose promise has
\* settled: each step of a request in flight is taken once it is enabled.
SpecLive ==
    /\ Init
    /\ [][Next]_vars
    /\ WF_vars(TierRemote)
    /\ WF_vars(TierAI)
    /\ WF_vars(TierLocal)
    /\ WF_vars(PostProcess)
    /\ WF_vars(Explain)

----------------------------------------------------------------------------
(* The patch applier on its own: every explanation and document within bounds *)

MaxLines == 2
MaxPatches == 2

LineNames == <<"L1", "L2", "L3", "L4", "L5", "L6">>

DocOfLen(n) == Lines([i \in 1..n |-> LineNames[i]])
PatchDocs == { DocOfLen(n) : n \in 0..MaxLines }

LineNums == 0..(MaxLines + 1)
\* a line_end past the last line slices like the last line
LineEnds == 0..MaxLines
Replacements == { None, Some(<<"X">>), Some(<<"Y", NL, "Z">>) }
Patches == [line_start : LineNums, line_end : LineEnds, replacement : Replacements]

PatchArrays == UNION { [1..n -> Patches] : n \in 0..MaxPatches }

FullTexts == { None, Some(<<>>), Some(<<"P", NL, "Q">>) }

PatchExplanations ==
    { None } \cup
    { Some([JsonObject EXCEPT !.minimal_fix_patches = Some(ps)]) : ps \in PatchArrays } \cup
    { Some([JsonObject EXCEPT !.corrected_code = cc,
                              !.minimal_fix_patches = arr,
                              !.minimal_fix_patch = one]) :
        cc \in FullTexts,
        arr \in { None, Some(<<>>),
                  Some(<<[line_start |-> 1, line_end |-> 1, replacement |-> Some(<<"X">>)]>>) },
        one \in { None } \cup { Some(p) : p \in Patches } }

\* The two-patch scenario: a document of five lines and the array
\* [{1, 1, "a"}, {3, 4, "b\nc"}].
ScenarioDoc == Lines(<<"L1", "L2", "L3", "L4", "L5">>)
ScenarioPatches ==
    << [line_start |-> 1, line_end |-> 1, replacement |-> Some(<<"a">>)],
       [line_start |-> 3, line_end |-> 4, replacement |-> Some(<<"b", NL, "c">>)] >>
ScenarioExplanation == Some([JsonObject EXCEPT !.minimal_fix_patches = Some(ScenarioPatches)])

InitPatch ==
    /\ orchRev = "ai_regex"
    /\ scanRev = "logicalErrors_b"
    /\ \/ code \in PatchDocs /\ aiExplanation \in PatchExplanations
       \/ code = ScenarioDoc /\ aiExplanation = ScenarioExplanation
    /\ PageInit

ApplyOnce == ~lastApply.called /\ HandleApplyPatch

NextPatch ==
    \/ ApplyOnce
    \/ ClearFixedLines

SpecPatch == InitPatch /\ [][NextPatch]_vars

----------------------------------------------------------------------------
(* Error categories *)

\* export type ErrorType
ErrorTypes ==
    { "INTEGER_OVERFLOW", "NULL_POINTER", "ARRAY_INDEX_OUT_OF_BOUNDS", "INFINITE_RECURSION",
      "OFF_BY_ONE", "DIVISION_BY_ZERO", "STRING_EQUALITY", "OTHER_LOGICAL" }

\* the keys of EDUCATION_DATABASE
EducationKeys ==
    { "INTEGER_OVERFLOW", "DOUBLE_FREE", "USE_AFTER_FREE", "DANGLING_POINTER",
      "POINTER_OUT_OF_BOUNDS", "INFINITE_RECURSION", "OFF_BY_ONE", "MEMORY_LEAK",
      "DIVISION_BY_ZERO", "OTHER_LOGICAL" }

\* the categories the prompt of the AI tier lists for "errorType"
AiPromptTypes ==
    { "INTEGER_OVERFLOW", "NULL_POINTER", "POINTER_OUT_OF_BOUNDS", "INFINITE_RECURSION",
      "OFF_BY_ONE", "DIVISION_BY_ZERO", "OTHER_LOGICAL" }

\* EDUCATION_DATABASE[errorType] || EDUCATION_DATABASE["OTHER_LOGICAL"]: the
\* key of the entry the lookup ends at
EducationLookup(errorType) ==
    IF errorType \in EducationKeys THEN errorType ELSE "OTHER_LOGICAL"

----------------------------------------------------------------------------
(* The scanner on its own: every document of a few statements *)

MaxScanLines == 3

ScanStatements == { AllocLine, AllocForLine, ForLeLine, AccessOob, AccessInThenOob,
                    AnonAlloc, WhileTrue, BreakInIf, DivZeroLine,
                    AssignAB, AssignBAB, FactLine, ForLtN }

\* Documents of up to MaxScanLines lines, each one statement; the last line of a
\* document may be empty (a text ending in a newline), and "" is a document.
ScanDocs ==
    { <<>> } \cup
    UNION { { Lines(ls) : ls \in [1..n -> ScanStatements] } : n \in 1..MaxScanLines } \cup
    UNION { { Lines(ls) \o <<NL>> : ls \in [1..n -> ScanStatements] } : n \in 1..(MaxScanLines - 1) }

InitScan ==
    /\ orchRev = "ai_regex"
    /\ scanRev \in ScanRevs
    /\ code \in ScanDocs
    /\ aiExplanation = None
    /\ PageInit

\* detectLogicalErrors(code), called once on the document
ScanOnce ==
    /\ ~scanned.called
    /\ LET r == DetectLogicalErrors(scanRev, code) IN
          scanned' = [called |-> TRUE, threw |-> r.threw, errors |-> r.errors]
    /\ UNCHANGED <<orchRev, scanRev, lastConvert, tabs, lastCall, code, output, outputType, exitCode,
                   showAIExplanation, aiExplanation, isRunning, detectedLanguage,
                   errorLines, fixedLines, history, mistakes, pc, runCode, tiers,
                   tierIn, result, runs, lastRun, lastApply>>

NextScan == ScanOnce

SpecScan == InitScan /\ [][NextScan]_vars

----------------------------------------------------------------------------
(* The mistake tracker on its own: every stored item, a few calls *)

MaxCalls == 3
MaxStored == 2

\* The texts trackMistakes is called with: undefined, "", and compiler
\* outputs with no signature, one signature once, one signature twice, and
\* the signatures of two symbols
TrackTexts ==
    { None, Some(<<>>), Some(<<JavacError>>), Some(<<GccError>>),
      Some(<<GccError, NL, GccError>>), Some(<<GccError, NL, BraceError>>),
      Some(<<BraceError>>) }

\* JSON objects a browser can hold under the key: every symbol at most once
StoredMaps ==
    { m \in UNION { [1..n -> [char : Symbols, count : 1..MaxStored]] : n \in 0..Cardinality(Symbols) } :
        \A a, b \in DOMAIN m : a # b => m[a].char # m[b].char }

StoredItems ==
    {NoItem} \cup { Corrupted(kind) : kind \in CorruptKinds }
             \cup { StoredObject(m) : m \in StoredMaps }

TrackerFrame ==
    UNCHANGED <<orchRev, scanRev, lastConvert, tabs, scanned, code, output, outputType, exitCode,
                showAIExplanation, aiExplanation, isRunning, detectedLanguage,
                errorLines, fixedLines, history, pc, runCode, tiers,
                tierIn, result, runs, lastRun, lastApply>>

InitTracker ==
    /\ orchRev = "ai_regex"
    /\ scanRev = "logicalErrors_b"
    /\ code = <<>>
    /\ aiExplanation = None
    /\ output = Some(<<>>)
    /\ outputType = "info"
    /\ exitCode = None
    /\ showAIExplanation = FALSE
    /\ isRunning = FALSE
    /\ detectedLanguage = None
    /\ errorLines = <<>>
    /\ fixedLines = <<>>
    /\ history = NoHistory
    /\ mistakes \in StoredItems
    /\ pc = "idle"
    /\ runCode = <<>>
    /\ tiers = <<>>
    /\ tierIn = NoTierIn
    /\ result = NoResult
    /\ runs = 0
    /\ lastRun = NoRun
    /\ lastApply = NoApply
    /\ scanned = NoScan
    /\ tabs = NoTabs
    /\ lastConvert = NoConvert
    /\ lastCall = [NoCall EXCEPT !.start = mistakes]

\* trackMistakes(output)
CallTrackMistakes ==
    /\ lastCall.calls < MaxCalls
    /\ \E out \in TrackTexts :
          LET r == TrackMistakes(mistakes, out)
              matched == IF TruthyText(out) THEN MatchedSymbols(Val(out)) ELSE {}
          IN /\ mistakes' = r.store
             /\ lastCall' = [lastCall EXCEPT
                    !.op = "trackMistakes", !.calls = @ + 1, !.before = mistakes,
                    !.out = out, !.char = "", !.threw = FALSE, !.returned = r.returned,
                    !.list = <<>>, !.notified = r.notified,
                    !.matching = [sym \in Symbols |-> IF sym \in matched THEN @[sym] + 1
                                                      ELSE @[sym]],
                    !.cleared = @ /\ matched = {}]
    /\ TrackerFrame

\* getMistakes()
CallGetMistakes ==
    /\ lastCall.calls < MaxCalls
    /\ LET r == GetMistakes(mistakes) IN
          /\ mistakes' = r.store
          /\ lastCall' = [lastCall EXCEPT
                 !.op = "getMistakes", !.calls = @ + 1, !.before = mistakes,
                 !.out = None, !.char = "", !.threw = r.threw, !.returned = FALSE,
                 !.list = r.list, !.notified = FALSE]
    /\ TrackerFrame

\* resetMistake(char)
CallResetMistake ==
    /\ lastCall.calls < MaxCalls
    /\ \E char \in Symbols :
          LET r == ResetMistake(mistakes, char) IN
             /\ mistakes' = r.store
             /\ lastCall' = [lastCall EXCEPT
                    !.op = "resetMistake", !.calls = @ + 1, !.before = mistakes,
                    !.out = None, !.char = char, !.threw = r.threw, !.returned = FALSE,
                    !.list = <<>>, !.resets = TRUE, !.notified = r.notified]
    /\ TrackerFrame

\* resetAllMistakes()
CallResetAllMistakes ==
    /\ lastCall.calls < MaxCalls
    /\ mistakes' = ResetAllMistakes(mistakes)
    /\ lastCall' = [lastCall EXCEPT
           !.op = "resetAllMistakes", !.calls = @ + 1, !.before = mistakes,
           !.out = None, !.char = "", !.threw = FALSE, !.returned = FALSE,
           !.list = <<>>, !.resets = TRUE, !.cleared = TRUE, !.notified = TRUE]
    /\ TrackerFrame

NextTracker ==
    \/ CallTrackMistakes
    \/ CallGetMistakes
    \/ CallResetMistake
    \/ CallResetAllMistakes

SpecTracker == InitTracker /\ [][NextTracker]_vars

----------------------------------------------------------------------------
(* trackMistakes called from two tabs on the same storage. A tab runs its  *)
(* call in one task, but the storage is shared between the tabs' event     *)
(* loops and the code takes no lock: getItem and setItem are each one      *)
(* step, and a step of the other tab can come between them.                *)

MaxTabCalls == 1

TabTexts == { Some(<<JavacError>>), Some(<<GccError>>), Some(<<GccError, NL, BraceError>>) }

TabFrame ==
    UNCHANGED <<orchRev, scanRev, lastConvert, scanned, code, output, outputType, exitCode,
                showAIExplanation, aiExplanation, isRunning, detectedLanguage,
                errorLines, fixedLines, history, pc, runCode, tiers,
                tierIn, result, runs, lastRun, lastApply>>

InitTabs == InitTracker

\* trackMistakes(output) up to and including loadCounts()
TabLoad(t) ==
    /\ tabs[t].pc = "idle"
    /\ tabs[t].calls < MaxTabCalls
    /\ \E out \in TabTexts :
          LET ld == LoadCounts(mistakes) IN
             /\ mistakes' = ld.store
             /\ tabs' = [tabs EXCEPT ![t] = [pc |-> IF TruthyText(out) THEN "loaded" ELSE "idle",
                                             calls |-> @.calls + 1, out |-> out,
                                             counts |-> ld.counts]]
             /\ lastCall' = [lastCall EXCEPT
                    !.matching = [sym \in Symbols |->
                                     IF sym \in MatchedSymbols(Val(out)) THEN @[sym] + 1
                                     ELSE @[sym]]]
    /\ TabFrame

\* the rest of the call: the forEach over the loaded value and setItem
TabStore(t) ==
    /\ tabs[t].pc = "loaded"
    /\ LET r == TrackAfterLoad(tabs[t].counts, Val(tabs[t].out)) IN
          mistakes' = IF r.write = None THEN mistakes ELSE Val(r.write)
    /\ tabs' = [tabs EXCEPT ![t].pc = "idle"]
    /\ UNCHANGED lastCall
    /\ TabFrame

NextTabs == \E t \in Tabs : TabLoad(t) \/ TabStore(t)

SpecTabs == InitTabs /\ [][NextTabs]_vars

----------------------------------------------------------------------------
(* The history save of handleRunCode on its own: every stored item, a few  *)
(* recorded runs                                                           *)

MaxRecords == 3

\* n records stored by earlier runs, the newest first
StoredRecords(n) == [k \in 1..n |-> [status |-> "done", code |-> SrcOk, id |-> n + 1 - k]]

StoredHistories ==
    {NoHistory} \cup { [kind |-> kind, list |-> <<>>] : kind \in CorruptHistoryKinds }
                \cup { StoredList(StoredRecords(n)) : n \in {0, 1, HistoryCap - 1, HistoryCap} }

\* historyItem of the n-th run
HistoryItems(n) ==
    { [status |-> st, code |-> c, id |-> HistoryId(n)] : st \in {"done", "error"},
                                                         c \in {SrcOk, SrcNoSemi} }

InitHistory ==
    /\ orchRev = "ai_regex"
    /\ scanRev = "logicalErrors_b"
    /\ code = <<>>
    /\ aiExplanation = None
    /\ output = Some(<<>>)
    /\ outputType = "info"
    /\ exitCode = None
    /\ showAIExplanation = FALSE
    /\ isRunning = FALSE
    /\ detectedLanguage = None
    /\ errorLines = <<>>
    /\ fixedLines = <<>>
    /\ history \in StoredHistories
    /\ mistakes = NoItem
    /\ pc = "idle"
    /\ runCode = <<>>
    /\ tiers = <<>>
    /\ tierIn = NoTierIn
    /\ result = NoResult
    /\ runs = 0
    /\ lastRun = [NoRun EXCEPT !.histStart = history]
    /\ lastApply = NoApply
    /\ scanned = NoScan
    /\ tabs = NoTabs
    /\ lastConvert = NoConvert
    /\ lastCall = NoCall

\* the "1. Compile History" block of one more run
RecordRun ==
    /\ runs < MaxRecords
    /\ runs' = runs + 1
    /\ \E item \in HistoryItems(runs + 1) :
          /\ history' = SaveHistory(history, item)
          /\ lastRun' = [lastRun EXCEPT !.historySaved = HistoryWritten(history),
                                        !.histBefore = history,
                                        !.recorded = <<item>> \o @]
    /\ UNCHANGED <<orchRev, scanRev, lastConvert, tabs, scanned, lastCall, code, output, outputType,
                   exitCode, showAIExplanation, aiExplanation, isRunning, detectedLanguage,
                   errorLines, fixedLines, mistakes, pc, runCode, tiers, tierIn, result,
                   lastApply>>

NextHistory == RecordRun

SpecHistory == InitHistory /\ [][NextHistory]_vars

----------------------------------------------------------------------------
(* handleAutoConvert on a page that shows the foreign-language banner *)

InitConvert ==
    /\ orchRev = "ai_regex"
    /\ scanRev = "logicalErrors_b"
    /\ code \in SourceTexts
    /\ aiExplanation = None
    /\ output = Some(<<>>)
    /\ outputType = "error"
    /\ exitCode = Some(1)
    /\ showAIExplanation = FALSE
    /\ isRunning = FALSE
    /\ detectedLanguage \in {Some("C"), Some("Python")}
    /\ errorLines \in {<<>>, <<3>>}
    /\ fixedLines = <<>>
    /\ history = NoHistory
    /\ mistakes = NoItem
    /\ pc = "idle"
    /\ runCode = <<>>
    /\ tiers = <<>>
    /\ tierIn = NoTierIn
    /\ result = NoResult
    /\ runs = 0
    /\ lastRun = NoRun
    /\ lastApply = NoApply
    /\ scanned = NoScan
    /\ tabs = NoTabs
    /\ lastConvert = NoConvert
    /\ lastCall = NoCall

\* handleAutoConvert(detectedLanguage), from the banner's button
HandleAutoConvert ==
    /\ IsSome(detectedLanguage)
    /\ \E answer \in ConvertAnswers :
          LET convertedCode == ConvertToJava(answer) IN
             /\ code' = convertedCode
             /\ fixedLines' = [i \in 1..Len(SplitLines(convertedCode)) |-> i]
             /\ lastConvert' = [called |-> TRUE, answer |-> answer, before |-> code,
                                returned |-> convertedCode]
    /\ detectedLanguage' = None
    /\ errorLines' = <<>>
    /\ UNCHANGED <<orchRev, scanRev, tabs, scanned, lastCall, output, outputType, exitCode,
                   showAIExplanation, aiExplanation, isRunning, history, mistakes, pc,
                   runCode, tiers, tierIn, result, runs, lastRun, lastApply>>

NextConvert == HandleAutoConvert \/ ClearFixedLines

SpecConvert == InitConvert /\ [][NextConvert]_vars

----------------------------------------------------------------------------
(* Properties of the execution tier chain (checked under Spec) *)

Settled == pc = "post"
LastTier == IF tiers = <<>> THEN "none" ELSE tiers[Len(tiers)]

\* C1: for every run request the tiers are attempted in the order remote
\* sandbox, AI-simulated compiler, local simulation: after a timeout of the
\* remote sandbox the AI tier is attempted next, and the local tier only after
\* the AI tier failed.
C1_RemoteThenAiThenLocal ==
    (Settled /\ tierIn.remote.kind = "timeout")
        => /\ Len(tiers) >= 2
           /\ tiers[1] = "remote"
           /\ tiers[2] = "ai"
           /\ (Len(tiers) = 3 => tiers[3] = "local")

\* The model call of the AI tier failed recoverably: transport error, non-2xx
\* status, empty or unparseable content, or an object without output/exitCode.
AiTierFailed ==
    \/ tierIn.ai \in AiFailures
    \/ /\ tierIn.ai.kind = "json"
       /\ IsSome(tierIn.ai.json)
       /\ (~IsSome(Val(tierIn.ai.json).output) \/ ~IsSome(Val(tierIn.ai.json).exitCode))

\* C2: whenever the model call of the AI tier fails recoverably, the request
\* is answered by the local simulation tier and never by a result built from
\* the failed or substituted response.
C2_AiFailureAnsweredByLocal ==
    (Settled /\ AiTierFailed) => LastTier = "local"

\* C3: runJavaCompilerSimulation never rejects: whatever the tiers and the
\* scanner do, the caller receives a CompilationResult.
C3_NeverRejects == result.status # "rejected"

\* C4: the result of the local simulation tier is always classified degraded
\* (outputType warning), never success and never error, whatever the source.
C4_LocalAlwaysDegraded ==
    (Settled /\ LastTier = "local" /\ result.status = "ok")
        => result.value.outputType = "warning"

\* A well-formed answer of the remote sandbox that reports a compile or run
\* failure, and the text it reports it with.
RemoteDefinitiveError ==
    /\ tierIn.remote.kind = "ok"
    /\ IsSome(tierIn.remote.run)
    /\ IsSome(Val(tierIn.remote.run).output)
    /\ \/ IsSome(tierIn.remote.compile) /\ Val(tierIn.remote.compile).code # 0
       \/ Val(tierIn.remote.run).code # 0

RemoteErrorText ==
    IF IsSome(tierIn.remote.compile) /\ Val(tierIn.remote.compile).code # 0
    THEN OrText(Val(tierIn.remote.compile).stderr, Val(tierIn.remote.compile).stdout)
    ELSE Val(Val(tierIn.remote.run).output)

RemoteErrorCode ==
    IF IsSome(tierIn.remote.compile) /\ Val(tierIn.remote.compile).code # 0
    THEN Val(tierIn.remote.compile).code
    ELSE Val(tierIn.remote.run).code

\* C5: a definitive compile or runtime error of the remote sandbox is terminal:
\* the result carries the text and exit code of the sandbox with classification
\* error, and no lower tier is invoked for the request.
C5_DefinitiveErrorTerminal ==
    (Settled /\ RemoteDefinitiveError)
        => /\ tiers = <<"remote">>
           /\ result.status = "ok"
           /\ result.value.outputType = "error"
           /\ result.value.exitCode = Some(RemoteErrorCode)
           /\ (RemoteErrorText # <<>> => result.value.output = Some(RemoteErrorText))

\* C6: a run whose result has the foreign-language flag set stops there: no
\* error-line update, no history record, no mistake tracking, no explanation
\* request, no local tier, and a later apply-fix changes nothing.
C6_ForeignLanguageStops ==
    (result.status = "ok" /\ result.value.isForeignLanguage /\ pc \in {"explain", "idle"})
        => /\ ~lastRun.errorLinesSet
           /\ ~lastRun.historySaved
           /\ ~lastRun.tracked
           /\ ~lastRun.explained
           /\ pc # "explain"
           /\ LastTier # "local"
           /\ ~lastApply.set

----------------------------------------------------------------------------
(* Properties of the patch applier (checked under SpecPatch) *)

Range(f) == { f[i] : i \in DOMAIN f }

AppliedExpl == Val(lastApply.expl)
AppliedArray == Val(AppliedExpl.minimal_fix_patches)
OriginalLines == SplitLines(lastApply.doc)

ArrayApplied == lastApply.called /\ lastApply.branch = "array"

\* Every patch of the array addresses existing lines of the original document
\* with a replacement text, and no two patches share a line.
WellFormedArray ==
    /\ \A i \in DOMAIN AppliedArray :
          /\ 1 <= AppliedArray[i].line_start
          /\ AppliedArray[i].line_start <= AppliedArray[i].line_end
          /\ AppliedArray[i].line_end <= Len(OriginalLines)
          /\ IsSome(AppliedArray[i].replacement)
    /\ \A i, j \in DOMAIN AppliedArray :
          i # j => \/ AppliedArray[i].line_end < AppliedArray[j].line_start
                   \/ AppliedArray[j].line_end < AppliedArray[i].line_start

PatchesAt(ps, i) == { k \in DOMAIN ps : ps[k].line_start = i }
Covered(ps, i) == \E k \in DOMAIN ps : ps[k].line_start <= i /\ i <= ps[k].line_end

RECURSIVE Simultaneous(_, _, _)
\* The document in which each addressed range of the original line numbering
\* [i..] is replaced by its patch's text, read off the original lines alone.
Simultaneous(lines, ps, i) ==
    IF i > Len(lines) THEN <<>>
    ELSE IF PatchesAt(ps, i) # {}
         THEN SplitLines(Val(ps[CHOOSE k \in PatchesAt(ps, i) : TRUE].replacement))
                \o Simultaneous(lines, ps, i + 1)
    ELSE IF Covered(ps, i) THEN Simultaneous(lines, ps, i + 1)
    ELSE <<lines[i]>> \o Simultaneous(lines, ps, i + 1)

RECURSIVE FinalPositions(_, _, _, _)
\* The 1-based positions the replacement lines have in Simultaneous(lines, ps, 1);
\* pos is the position of the next line written.
FinalPositions(lines, ps, i, pos) ==
    IF i > Len(lines) THEN {}
    ELSE IF PatchesAt(ps, i) # {}
         THEN LET k == Len(SplitLines(Val(ps[CHOOSE q \in PatchesAt(ps, i) : TRUE].replacement)))
              IN (pos..(pos + k - 1)) \cup FinalPositions(lines, ps, i + 1, pos + k)
    ELSE IF Covered(ps, i) THEN FinalPositions(lines, ps, i + 1, pos)
    ELSE FinalPositions(lines, ps, i + 1, pos + 1)

\* C7: applying an array of in-range, pairwise non-overlapping patches, given
\* in any order, yields the original document with each addressed range
\* replaced by its patch's text: no patch shifts the lines another one addresses.
C7_SimultaneousReplacement ==
    (ArrayApplied /\ WellFormedArray)
        => /\ ~lastApply.threw
           /\ code = JoinLines(Simultaneous(OriginalLines, AppliedArray, 1))

\* C7 witness: two patches given in ascending order, the upper one changing the
\* line count, have been applied.
C7_Witness ==
    /\ ArrayApplied /\ WellFormedArray
    /\ Len(AppliedArray) = 2
    /\ AppliedArray[1].line_start < AppliedArray[2].line_start
    /\ Len(SplitLines(Val(AppliedArray[1].replacement))) = 2
    /\ code = <<"Y", NL, "Z", NL, "X">>

\* C8 (as stated): whenever the explanation carries a corrected_code, the new
\* document is exactly that text, whatever patches the explanation also has.
C8_FullReplacementWhenPresent ==
    (lastApply.called /\ IsSome(lastApply.expl) /\ IsSome(AppliedExpl.corrected_code))
        => code = Val(AppliedExpl.corrected_code)

\* C8 (amended): exactly one source is applied. A non-empty corrected_code wins:
\* the document becomes that text with lines 1..n marked. An empty corrected_code
\* counts as absent. Otherwise a present patch array, even empty, is applied and
\* the legacy single patch ignored; the legacy patch is applied only when there
\* is neither a non-empty corrected_code nor a patch array.
C8_PatchPriority ==
    (lastApply.called /\ IsSome(lastApply.expl)) =>
        LET cc   == AppliedExpl.corrected_code
            arr  == AppliedExpl.minimal_fix_patches
            one  == AppliedExpl.minimal_fix_patch
            r    == ApplySortedPatches(SortedPatches(Val(arr)), OriginalLines, <<>>)
        IN /\ TruthyText(cc) =>
                 /\ code = Val(cc)
                 /\ lastApply.fixed = [i \in 1..Len(SplitLines(Val(cc))) |-> i]
           /\ (~TruthyText(cc) /\ IsSome(arr)) =>
                 /\ lastApply.threw = r.threw
                 /\ code = IF r.threw THEN lastApply.doc ELSE JoinLines(r.lines)
                 /\ lastApply.fixed = IF r.threw THEN <<>> ELSE r.fixed
           /\ (~TruthyText(cc) /\ ~IsSome(arr) /\ IsSome(one)) =>
                 code = IF IsSome(Val(one).replacement)
                        THEN JoinLines(SplicePatch(OriginalLines, Val(one)))
                        ELSE lastApply.doc
           /\ (~TruthyText(cc) /\ ~IsSome(arr) /\ ~IsSome(one)) =>
                 code = lastApply.doc /\ ~lastApply.set

\* C8 witness: all three sources were present and the full text was applied.
C8_Witness ==
    /\ lastApply.called /\ IsSome(lastApply.expl)
    /\ TruthyText(AppliedExpl.corrected_code)
    /\ IsSome(AppliedExpl.minimal_fix_patches) /\ AppliedArray # <<>>
    /\ IsSome(AppliedExpl.minimal_fix_patch)
    /\ code = Val(AppliedExpl.corrected_code)
    /\ code # lastApply.doc

\* The one patch of a call that applies a single patch.
TheOnePatch ==
    IF lastApply.branch = "single" THEN Val(AppliedExpl.minimal_fix_patch)
    ELSE AppliedArray[1]

OnePatchApplied ==
    /\ lastApply.called
    /\ \/ lastApply.branch = "single"
       \/ lastApply.branch = "array" /\ Len(AppliedArray) = 1

\* The document is the original with the lines a..b replaced, for some clamped
\* range 1 <= a <= b + 1 <= n + 1, or the original itself (patch skipped).
ClampedOrSkipped(patch) ==
    \/ code = lastApply.doc
    \/ \E a \in 1..(Len(OriginalLines) + 1) : \E b \in (a - 1)..Len(OriginalLines) :
          code = JoinLines(SubSeq(OriginalLines, 1, a - 1)
                             \o SplitLines(Val(patch.replacement))
                             \o SubSeq(OriginalLines, b + 1, Len(OriginalLines)))

\* C9: a malformed patch (line_start after line_end, line_start outside
\* [1, lineCount + 1], replacement missing) never makes the applier throw; it
\* is skipped or clamped and never duplicates or drops lines outside its range.
C9_MalformedPatchSafe ==
    OnePatchApplied
        => /\ ~lastApply.threw
           /\ IsSome(TheOnePatch.replacement) => ClampedOrSkipped(TheOnePatch)

\* C10: after a patch array has been applied, the changed-line markers are
\* exactly the final positions of the replacement lines, also when a patch with
\* a smaller line_start changed the line count.
C10_MarkersAreFinalPositions ==
    (ArrayApplied /\ WellFormedArray)
        => Range(lastApply.fixed) = FinalPositions(OriginalLines, AppliedArray, 1, 1)

ScenarioApplied ==
    /\ ArrayApplied
    /\ lastApply.doc = ScenarioDoc
    /\ AppliedArray = ScenarioPatches

\* C11 (as stated): the two-patch array [{1,1,"a"},{3,4,"b\nc"}] applied to a
\* 5-line document yields a 4-line document, the patch for lines 3-4 first.
C11_ScenarioYieldsFourLines ==
    ScenarioApplied
        => /\ Len(SplitLines(code)) = 4
           /\ SortedPatches(AppliedArray)[1].line_start = 3

\* C11 (amended): the two-patch array applied to the 5-line document L1..L5
\* yields the 5-line document a, L2, b, c, L5 (both patches keep the line count);
\* the patch for lines 3-4 is applied, and its markers pushed, before the patch
\* for line 1; the marker sets {3, 4} and {1} are the final positions of the
\* replacement lines and do not overlap.
C11_TwoPatchScenario ==
    ScenarioApplied
        => /\ ~lastApply.threw
           /\ code = Lines(<<"a", "L2", "b", "c", "L5">>)
           /\ Len(SplitLines(code)) = 5
           /\ fixedLines \in {<<3, 4, 1>>, <<>>}
           /\ lastApply.fixed = <<3, 4, 1>>
           /\ Range(lastApply.fixed) = FinalPositions(OriginalLines, AppliedArray, 1, 1)
           /\ Range(PatchMarkers(ScenarioPatches[1])) \cap Range(PatchMarkers(ScenarioPatches[2])) = {}

\* C11 witness: the scenario has been applied and the markers are showing.
C11_Witness ==
    /\ ScenarioApplied
    /\ code = Lines(<<"a", "L2", "b", "c", "L5">>)
    /\ fixedLines = <<3, 4, 1>>

\* C12: applying an empty patch array, or invoking apply when no explanation
\* exists or when it carries neither a full replacement nor a patch array nor a
\* single patch, leaves the document as it was and introduces no markers.
C12_NothingToApply ==
    (/\ lastApply.called
     /\ \/ ~IsSome(lastApply.expl)
        \/ /\ ~TruthyText(AppliedExpl.corrected_code)
           /\ \/ AppliedExpl.minimal_fix_patches = Some(<<>>)
              \/ /\ ~IsSome(AppliedExpl.minimal_fix_patches)
                 /\ ~IsSome(AppliedExpl.minimal_fix_patch))
        => /\ ~lastApply.threw
           /\ code = lastApply.doc
           /\ fixedLines = <<>>

\* C12 witness: an empty patch array was applied to a document of two lines.
C12_Witness ==
    /\ ArrayApplied
    /\ AppliedArray = <<>>
    /\ lastApply.set
    /\ Len(OriginalLines) = 2
    /\ code = lastApply.doc

\* C13: line-addressed patches are only ever applied to the document they were
\* computed for: whenever a patch array or a single patch is spliced in, the
\* document it is spliced into is the one the run analysed, so a second apply,
\* or an apply after an edit, splices nothing.
C13_PatchesOnAnalysedDocument ==
    (/\ lastApply.called
     /\ lastApply.set
     /\ \/ lastApply.branch = "single"
        \/ lastApply.branch = "array" /\ AppliedArray # <<>>)
        => lastApply.doc = runCode

----------------------------------------------------------------------------
(* Properties of the scanner (checked under SpecScan) *)

ScannedLines == SplitLines(code)

\* The line allocates an array with a literal size: name = new T[K]
Allocates(line, name, size) ==
    \E k \in DOMAIN line : VarBeforeNew(line[k]) = Some(name) /\ NewArraySize(line[k]) = Some(size)

\* The literal indices c of the accesses name[c] of a statement
LiteralUsages(atom, name) ==
    IF name # "arr" THEN {}
    ELSE IF atom = AccessOob THEN {5}
    ELSE IF atom = AccessInThenOob THEN {0, 5}
    ELSE {}

DiagnosticsAt(lineNum, errorType) ==
    { k \in DOMAIN scanned.errors :
        scanned.errors[k].line = lineNum /\ scanned.errors[k].errorType = errorType }

\* C14: for every document that allocates an array with a literal size K and
\* has, on the allocation line or a later one, a for loop bounded by `<= K`,
\* the scan has an OFF_BY_ONE diagnostic on that for line; and for every later
\* line that accesses name[c] with a literal c >= K the scan has an
\* out-of-bounds error on that line whose message carries c and K.
C14_ArrayBoundsDiagnostics ==
    (scanned.called /\ ~scanned.threw) =>
        \A a \in DOMAIN ScannedLines : \A size \in {5} :
            Allocates(ScannedLines[a], "arr", size) =>
                /\ \A j \in a..Len(ScannedLines) :
                      (\E k \in DOMAIN ScannedLines[j] : size \in ForLeBounds(ScannedLines[j][k]))
                          => DiagnosticsAt(j, "OFF_BY_ONE") # {}
                /\ \A j \in (a + 1)..Len(ScannedLines) :
                      \A k \in DOMAIN ScannedLines[j] :
                         \A c \in LiteralUsages(ScannedLines[j][k], "arr") :
                            c >= size =>
                               \E d \in DiagnosticsAt(j, "ARRAY_INDEX_OUT_OF_BOUNDS") :
                                  /\ scanned.errors[d].severity = "error"
                                  /\ scanned.errors[d].args = <<size, c>>

\* C15: for every line with `while(true)` or `for(;;)`, if no `break` occurs on
\* that line or on any later line, the scan has exactly one INFINITE_RECURSION
\* warning at that line, whatever text precedes the line.
C15_InfiniteLoopWarning ==
    (scanned.called /\ ~scanned.threw) =>
        \A i \in DOMAIN ScannedLines :
            (/\ \E k \in DOMAIN ScannedLines[i] : LoopsForever(ScannedLines[i][k])
             /\ \A j \in i..Len(ScannedLines) : \A k \in DOMAIN ScannedLines[j] :
                   ~IsSome(BreakOffset(ScannedLines[j][k])))
                => /\ Cardinality(DiagnosticsAt(i, "INFINITE_RECURSION")) = 1
                   /\ \A d \in DiagnosticsAt(i, "INFINITE_RECURSION") :
                         scanned.errors[d].severity = "warning"

\* C16: detectLogicalErrors never throws: for every source text, empty and
\* malformed ones included, it returns a list of diagnostics.
C16_ScanNeverThrows == scanned.called => ~scanned.threw

----------------------------------------------------------------------------
(* Diagnostics of a result (checked under Spec) *)

\* C17: for every run that does not end in a foreign-language outcome,
\* whichever tier answered, the diagnostics of the result contain every
\* diagnostic of the scan of the same source text, next to the tier's own.
C17_ScanDiagnosticsMerged ==
    (/\ Settled
     /\ result.status = "ok"
     /\ ~result.value.isForeignLanguage
     /\ ~DetectLogicalErrors(scanRev, runCode).threw)
        => \A k \in DOMAIN DetectLogicalErrors(scanRev, runCode).errors :
              \E m \in DOMAIN result.value.logicalErrors :
                 result.value.logicalErrors[m] = DetectLogicalErrors(scanRev, runCode).errors[k]

----------------------------------------------------------------------------
(* Properties of the mistake tracker (checked under SpecTracker) *)

\* The mapping a stored item stands for, and what it says about a symbol
MappingOf(store) == IF store.kind = "object" THEN store.map ELSE <<>>
HasKey(store, sym) == \E k \in DOMAIN MappingOf(store) : MappingOf(store)[k].char = sym
StoredCount(store, sym) ==
    IF HasKey(store, sym)
    THEN (CHOOSE r \in { MappingOf(store)[k] : k \in DOMAIN MappingOf(store) } : r.char = sym).count
    ELSE 0

\* The item holds no mapping: JSON of another type
NotAMapping(store) == store.kind \in {"null", "number", "string", "array"}

\* The text has the signature of the symbol at least once
SignatureSeen(out, sym) ==
    /\ IsSome(out)
    /\ \E k \in DOMAIN Val(out) : PatternMatches(sym, <<Val(out)[k]>>)

\* C18: when the storage holds a mapping (or nothing, or text that is no
\* JSON), one call of trackMistakes increases the stored count of a symbol
\* by exactly 1 if the text has the signature of the symbol, however many
\* times, and leaves the count of every other symbol as it was, creating no
\* entry for it; with no reset in between, the stored count of a symbol is
\* its count at the start plus the number of calls whose text matched it.
C18_OneIncrementPerCall ==
    /\ (lastCall.op = "trackMistakes" /\ ~NotAMapping(lastCall.before))
          => \A sym \in Symbols :
                IF SignatureSeen(lastCall.out, sym)
                THEN StoredCount(mistakes, sym) = StoredCount(lastCall.before, sym) + 1
                ELSE /\ StoredCount(mistakes, sym) = StoredCount(lastCall.before, sym)
                     /\ HasKey(mistakes, sym) <=> HasKey(lastCall.before, sym)
    /\ (~lastCall.resets /\ ~NotAMapping(lastCall.start))
          => \A sym \in Symbols :
                StoredCount(mistakes, sym) = StoredCount(lastCall.start, sym) + lastCall.matching[sym]

\* Two calls on an empty storage, the last with a text that has the
\* signature of ';' twice: ';' is counted twice, '}' has no entry
C18_Witness ==
    /\ lastCall.op = "trackMistakes"
    /\ lastCall.out = Some(<<GccError, NL, GccError>>)
    /\ lastCall.start = NoItem
    /\ ~lastCall.resets
    /\ lastCall.matching[";"] = 2
    /\ StoredCount(mistakes, ";") = 2
    /\ ~HasKey(mistakes, "}")

\* C19: when the item under the mistake-count key is corrupted (no JSON, or
\* JSON null, a number, a string or an array), trackMistakes, getMistakes and
\* resetMistake do not throw, do what they do on an empty mapping, and leave
\* the storage as they leave it from an empty mapping.
C19_CorruptedStorageTolerated ==
    (/\ lastCall.before.kind \in CorruptKinds
     /\ \/ lastCall.op = "trackMistakes" /\ TruthyText(lastCall.out)
        \/ lastCall.op = "getMistakes"
        \/ lastCall.op = "resetMistake")
        => /\ ~lastCall.threw
           /\ mistakes.kind \notin CorruptKinds
           /\ lastCall.op = "getMistakes" => lastCall.list = <<>>
           /\ lastCall.op = "trackMistakes"
                 => \A sym \in Symbols :
                       StoredCount(mistakes, sym) = IF SignatureSeen(lastCall.out, sym) THEN 1 ELSE 0

\* C20: on a mapping, resetMistake(s) removes the entry of s and no other,
\* and changes nothing when s has no entry; resetAllMistakes leaves an empty
\* mapping, and getMistakes returns the empty list from then until a call of
\* trackMistakes whose text matches a symbol.
C20_ResetsRemoveExactly ==
    /\ (lastCall.op = "resetMistake" /\ ~NotAMapping(lastCall.before))
          => /\ ~lastCall.threw
             /\ ~HasKey(mistakes, lastCall.char)
             /\ \A sym \in Symbols \ {lastCall.char} :
                   /\ HasKey(mistakes, sym) <=> HasKey(lastCall.before, sym)
                   /\ StoredCount(mistakes, sym) = StoredCount(lastCall.before, sym)
             /\ ~HasKey(lastCall.before, lastCall.char)
                   => MappingOf(mistakes) = MappingOf(lastCall.before)
    /\ lastCall.op = "resetAllMistakes" => MappingOf(mistakes) = <<>> /\ ~NotAMapping(mistakes)
    /\ (lastCall.cleared /\ lastCall.op = "getMistakes")
          => ~lastCall.threw /\ lastCall.list = <<>>

\* resetMistake(";") on a mapping of two symbols: '}' keeps its count
C20_Witness ==
    /\ lastCall.op = "resetMistake"
    /\ lastCall.char = ";"
    /\ HasKey(lastCall.before, ";")
    /\ HasKey(lastCall.before, "}")
    /\ StoredCount(mistakes, "}") = MaxStored

\* C21: every call of the tracker that leaves another item under the
\* mistake-count key than it found (a counted match, the reset of a stored
\* symbol, the reset of all, the removal of a corrupted item) has dispatched
\* the storage event before it returns.
C21_MutationsNotify ==
    (lastCall.op # "none" /\ mistakes # lastCall.before) => lastCall.notified

----------------------------------------------------------------------------
(* The tracker under two tabs (checked under SpecTabs) *)

\* C22: for every interleaving of the trackMistakes calls of two tabs on
\* one storage that held a mapping, once no call is in flight the stored
\* count of every symbol is its count at the start plus the number of calls
\* whose text matched it, as every serial order of the calls leaves it.
C22_TabsSerializable ==
    ((\A t \in Tabs : tabs[t].pc = "idle") /\ ~NotAMapping(lastCall.start))
        => \A sym \in Symbols :
              StoredCount(mistakes, sym) = StoredCount(lastCall.start, sym) + lastCall.matching[sym]

----------------------------------------------------------------------------
(* Properties of the run history (checked under SpecHistory) *)

\* Every record handed to the history so far and, after them, the records
\* stored at the start, the newest first
AllRecords == lastRun.recorded \o lastRun.histStart.list

\* C23: when the stored history is a list (or nothing is stored), after any
\* number of recorded runs it holds at most 20 records, newest first, and
\* they are exactly the most recent min(n, 20) of all n records; recording a
\* run on 20 stored records drops only the oldest and keeps the other 19.
C23_HistoryKeepsNewestTwenty ==
    (lastRun.histStart.kind \in {"absent", "array"} /\ lastRun.recorded # <<>>)
        => /\ history.kind = "array"
           /\ Len(history.list) <= HistoryCap
           /\ history.list = SubSeq(AllRecords, 1, Min(Len(AllRecords), HistoryCap))
           /\ \A k \in 1..(Len(history.list) - 1) : history.list[k].id > history.list[k + 1].id
           /\ Len(lastRun.histBefore.list) = HistoryCap
                 => /\ Len(history.list) = HistoryCap
                    /\ \A k \in 1..(HistoryCap - 1) :
                          history.list[k + 1] = lastRun.histBefore.list[k]

\* Two runs recorded on a full history: the two oldest records are gone
C23_Witness ==
    /\ Len(lastRun.histStart.list) = HistoryCap
    /\ Len(lastRun.recorded) = 2
    /\ history.list[1] = lastRun.recorded[1]
    /\ history.list[HistoryCap].id = 3

\* C24: when the stored run history is corrupted (no JSON, or JSON that is
\* no list), the next run leaves a stored list that holds its own record
\* and nothing of the corrupted item.
C24_CorruptedHistoryRepaired ==
    (lastRun.histBefore.kind \in CorruptHistoryKinds /\ lastRun.recorded # <<>>)
        => /\ lastRun.historySaved
           /\ history = StoredList(<<lastRun.recorded[1]>>)

----------------------------------------------------------------------------
(* The remote sandbox call (checked under Spec) *)

\* executeJavaCode has cleared its timer on every path it leaves by, and an
\* abort by the timer ends in the timed-out error
TimerClearedOnExit ==
    tierIn.call.done
        => /\ tierIn.call.timerCleared
           /\ tierIn.remote.kind = "timeout"
                 => tierIn.call.threw /\ tierIn.call.error = "timed_out"

\* C25: executeJavaCode clears its 5-second timer on every exit path; when
\* the timer fires during the request the call fails with the timed-out
\* error; and the orchestrator recovers from that error: the request settles
\* with the result of a lower tier.
C25_TimeoutClearedAndRecoverable ==
    /\ TimerClearedOnExit
    /\ (Settled /\ tierIn.remote.kind = "timeout")
          => result.status = "ok" /\ LastTier # "remote"

----------------------------------------------------------------------------
(* Progress of a run request (checked under SpecLive and Spec) *)

\* C26: every run request terminates: after handleRunCode has set the
\* running flag, the flag eventually returns to false, whatever the external
\* services do.
C26_RunTerminates == isRunning ~> ~isRunning

\* A request has started and its handler has not finished
InFlight == pc # "idle"

\* C27: while a run is in flight a new run request can be started: the
\* page accepts a click on Run, so that the newer request can proceed and
\* abandon the earlier one.
C27_NewRunAbandonsEarlier == InFlight => RunButtonEnabled

----------------------------------------------------------------------------
(* Error categories (checked under SpecScan) *)

\* C28: every category the scanner attaches to a diagnostic, and every
\* category the AI tier is asked to return, is a member of ErrorType and has
\* its own entry in the educational content database: the lookup by it ends
\* at that entry, not at the other-logical one.
C28_OneCategorySet ==
    (scanned.called /\ ~scanned.threw)
        => /\ \A k \in DOMAIN scanned.errors :
                 /\ scanned.errors[k].errorType \in ErrorTypes
                 /\ EducationLookup(scanned.errors[k].errorType) = scanned.errors[k].errorType
           /\ \A t \in AiPromptTypes : t \in ErrorTypes /\ EducationLookup(t) = t

----------------------------------------------------------------------------
(* The translation to Java (checked under SpecConvert) *)

\* C29: whenever the model call of convertToJava fails (transport error,
\* non-2xx status, empty content) the text handed back to replace the editor
\* content is the built-in fallback skeleton, and otherwise it is the
\* model's translation.
C29_TranslationOrSkeleton ==
    lastConvert.called
        => /\ code = lastConvert.returned
           /\ IF lastConvert.answer.kind = "text"
              THEN lastConvert.returned = Trim(Val(lastConvert.answer.json))
              ELSE lastConvert.returned = FallbackSkeleton

----------------------------------------------------------------------------
(* Diagnostics of the scanner (checked under SpecScan) *)

====
